---------------------------- MODULE Spec2Model ----------------------------
(***************************************************************************)
(* Causal-analytics entry points (on_receive of the eight agents) and the  *)
(* causal queries they run.                                                *)
(*                                                                         *)
(* Part 1  entry-point control flow: try body, except handler, result      *)
(*         dictionary (all eight on_receive functions).                    *)
(* Part 2  convert_to_percentage (arrow strength, intrinsic influence,     *)
(*         anomaly attribution).                                           *)
(* Part 3  interventional samples: the rules built by on_receive and the   *)
(*         sampling they are handed to.                                    *)
(* Part 4  counterfactual samples.                                         *)
(* Part 5  build: graph construction, mechanism assignment, fit, save.     *)
(* Part 6  the process-wide random seed: repeated and concurrent queries.  *)
(* Part 7  falsification of a graph and the explanation of its verdict.   *)
(* Part 8  the model file: written by the build, read by the queries.      *)
(* Part 9  the attribution result: medians, percentages and intervals,    *)
(*         rounded and sorted into the three views.                        *)
(***************************************************************************)
EXTENDS Integers, Sequences, FiniteSets, TLC

VARIABLES
    \* Part 1: one call of one entry point
    ep,        \* the entry point called ("none" before the call)
    data,      \* the input dictionary: key -> kind of the value
    env,       \* what the collaborators will do: "query" (the gcm call), "save"
    pc,        \* "idle", "try", "except", "returned", "raised"
    step,      \* the next step of the try body (pc = "try")
    locals,    \* the local variables of on_receive bound so far
    result,    \* the dictionary returned (Null until then)
    \* Part 2: one call of convert_to_percentage
    value_dictionary,  \* the score map passed in (key -> score)
    pct,               \* the map returned (key -> percentage), <<>> before
    pctPc,             \* "idle", "called", "returned"
    \* Part 3: one interventional-sample query
    smPc,              \* "idle", "rules", "call", "sampling", "done", "except", "error"
    smModel,           \* the edge list of the fitted model loaded from model_path
    intervention_user_input,  \* the parsed list of (variable, value) pairs
    intervention_type,        \* "atomic", "shift" or anything else ("other")
    num_samples_to_draw,
    intervention,      \* the dictionary of rules: [bound, rules]
    smOrder,           \* the order in which sample visits the nodes
    smPos,             \* the next position of smOrder to resolve
    smStatus,          \* node -> "pending" | "resolved"
    smResolved,        \* node -> how many times it was resolved
    smStale,           \* TRUE once a value was computed from a pending parent
    intervention_sample, \* the sample table: node -> column of n values
    smResult,          \* the dictionary returned
    observed_data,     \* the table the same draws give without the rules
    \* Part 4: one counterfactual query
    cfPc,              \* "idle", "rules", "call", "predict", "done", "error"
    cfModel,           \* the edge list of the fitted model loaded from model_path
    cfNotInvertible,   \* the nodes whose mechanism cannot recover its noise
    counterfactual_user_input,  \* the parsed list of (variable, value) pairs
    observation,       \* the observed row: node -> value
    counterfactual,    \* the dictionary of rules: [bound, rules]
    cfNoise,           \* the abducted noise: node -> value
    cfPos,             \* the next position of the topological order to predict
    counterfactuals_sample, \* the counterfactual row: node -> value
    cfResult,          \* the dictionary returned
    cfType,            \* the "intervention_type" of the request, if it has one
    \* Part 5: one build of a model
    buildPc,           \* the position of on_receive in its body
    buildData,         \* the request dictionary
    disk,              \* what the file system does with the model file
    modelFile,         \* the content of model_path/model_name.pkl
    modelFileBefore,   \* its content when the call arrived
    causal_graph,      \* nx.DiGraph(causal_relationship): [bound, edges]
    causal_model,      \* the model object: [bound, kind]
    mechanisms,        \* the mechanism assigned to each node
    fitPos,            \* the next position of graph.nodes to fit
    fitLog,            \* the fits done so far, in order: [node, regressors]
    buildResult,       \* the dictionary returned
    \* Part 6: two queries of one process and its random number generator
    rng,               \* the state of the process-wide generator
    clock,             \* the wall clock
    qPc,               \* per query: its position in on_receive
    qData,             \* per query: its request dictionary
    qDrawn,            \* per query: the values drawn so far
    qResult,           \* per query: the dictionary returned
    \* Part 7: one falsification of a graph
    falPc,             \* the position of on_receive in its body
    falData,           \* the request dictionary
    falsify_result,    \* what falsify_graph returned: [falsifiable, falsified]
    explanation,       \* the local explanation
    falResult,         \* the dictionary returned
    \* Part 8: the model file under one call of one entry point
    fsPc,              \* the position of the call
    fsEp,              \* the entry point called
    fsData,            \* the request: [model_path, query]
    fsFileBefore,      \* the content of the model file before the call
    fsFile,            \* the content of the model file
    fsHandle,          \* the mode the file is open in, or "closed"
    fsLoaded,          \* the model object in memory
    fsFits,            \* how many times mechanisms were fitted
    fsRepetitions,     \* how many times the query function was evaluated
    fsStatus,          \* the status returned
    \* Part 9: one attribution query and the three views of its result
    atPc,              \* the position of on_receive in its body
    atEp,              \* "arrow", "intrinsic" or "anomaly"
    atKeys,            \* the keys of the estimator's dictionary, in its order
    atAbove,           \* whether the doubles nearest to decimal ties lie above
    all_estimations,   \* the score map of every bootstrap repetition
    attribution_scores,           \* key -> median
    attribution_scores_intervals, \* key -> <<low, high>>
    attribution_scores_pct,       \* key -> percentage <<numerator, denominator>>
    atResult           \* the dictionary returned

varsEntry == <<ep, data, env, pc, step, locals, result>>
varsPct == <<value_dictionary, pct, pctPc>>

varsSm ==
    <<smPc, smModel, intervention_user_input, intervention_type,
      num_samples_to_draw, intervention, smOrder, smPos, smStatus, smResolved,
      smStale, intervention_sample, smResult, observed_data>>

varsCf ==
    <<cfPc, cfModel, cfNotInvertible, counterfactual_user_input, observation,
      counterfactual, cfNoise, cfPos, counterfactuals_sample, cfResult,
      cfType>>

varsBuild ==
    <<buildPc, buildData, disk, modelFile, modelFileBefore, causal_graph,
      causal_model, mechanisms, fitPos, fitLog, buildResult>>

varsSeed == <<rng, clock, qPc, qData, qDrawn, qResult>>

varsFal ==
    <<falPc, falData, falsify_result, explanation, falResult>>

varsFs ==
    <<fsPc, fsEp, fsData, fsFileBefore, fsFile, fsHandle, fsLoaded, fsFits,
      fsRepetitions, fsStatus>>

varsAt ==
    <<atPc, atEp, atKeys, atAbove, all_estimations, attribution_scores,
      attribution_scores_intervals, attribution_scores_pct, atResult>>

vars ==
    <<varsEntry, varsPct, varsSm, varsCf, varsBuild, varsSeed, varsFal, varsFs,
      varsAt>>

\* What each part leaves alone.
notEntry ==
    <<varsPct, varsSm, varsCf, varsBuild, varsSeed, varsFal, varsFs, varsAt>>
notPct ==
    <<varsEntry, varsSm, varsCf, varsBuild, varsSeed, varsFal, varsFs, varsAt>>
notSm ==
    <<varsEntry, varsPct, varsCf, varsBuild, varsSeed, varsFal, varsFs, varsAt>>
notCf ==
    <<varsEntry, varsPct, varsSm, varsBuild, varsSeed, varsFal, varsFs, varsAt>>
notBuild ==
    <<varsEntry, varsPct, varsSm, varsCf, varsSeed, varsFal, varsFs, varsAt>>
notSeed ==
    <<varsEntry, varsPct, varsSm, varsCf, varsBuild, varsFal, varsFs, varsAt>>
notFal ==
    <<varsEntry, varsPct, varsSm, varsCf, varsBuild, varsSeed, varsFs, varsAt>>
notFs ==
    <<varsEntry, varsPct, varsSm, varsCf, varsBuild, varsSeed, varsFal, varsAt>>
notAt ==
    <<varsEntry, varsPct, varsSm, varsCf, varsBuild, varsSeed, varsFal, varsFs>>

Null == "null"

(***************************************************************************)
(* Part 1.  ENTRY POINTS                                                   *)
(***************************************************************************)

EntryPoints ==
    {"falsify", "build", "evaluate", "arrow", "intrinsic", "intervene",
     "counterfactual", "anomaly"}

\* Kinds of value an input key can hold:
\*   "missing"  the key is absent (data.get gives None, data[k] raises KeyError)
\*   "bad"      present, but the parser or the library rejects it
\*   "ok"       present and well formed
\*   "object"   present, an object json can neither load nor dump (a set)
PlainKinds == {"missing", "bad", "ok"}

Keys(e) ==
    CASE e = "falsify"        -> {"observation", "causal_relationships"}
      [] e = "build"          -> {"observation", "causal_relationships",
                                  "causal_model_type", "model_path", "model_name"}
      [] e = "evaluate"       -> {"observation", "model_path"}
      [] e = "arrow"          -> {"model_path", "target_node"}
      [] e = "intrinsic"      -> {"model_path", "target_node",
                                  "num_samples_randomization"}
      [] e = "intervene"      -> {"model_path", "intervention_input",
                                  "num_samples_to_draw", "intervention_type"}
      [] e = "counterfactual" -> {"model_path", "counterfactual_input", "observation"}
      [] e = "anomaly"        -> {"model_path", "anomalous_node", "anomaly_data"}

\* The keys whose value the except handler passes to json.dumps.
DumpedKeys(e) ==
    CASE e = "counterfactual" -> {"observation"}
      [] e = "anomaly"        -> {"anomaly_data"}
      [] OTHER                -> {}

KindsOf(e, k) == IF k \in DumpedKeys(e) THEN PlainKinds \cup {"object"} ELSE PlainKinds

EnvKeys == {"query", "save"}

\* A step of a try body.
\*   a     locals the step binds
\*   r     locals the step reads (UnboundLocalError when one is not bound)
\*   f     <<key, kind>> pairs: the step raises when a key has that kind
\*   only  <<key, kind>> pairs: when not empty, the step binds its locals only
\*         if some pair matches (an if/elif without else)
St(a, r, f, only) == [a |-> a, r |-> r, f |-> f, only |-> only]

None == {}
Fails(k, kinds) == {<<k, x>> : x \in kinds}

\* _01_falsify_graph.py; set_random_seed(0) precedes the try (line 73).
BodyFalsify == <<
    St({"deserialized_data", "observation"}, None,
       Fails("observation", {"missing", "bad"}), None),                 \* 77-82
    St({"causal_graph"}, None,
       Fails("causal_relationships", {"missing", "bad"}), None),        \* 86
    St({"falsify_result"}, {"causal_graph", "observation"},
       Fails("query", {"bad"}), None),                                  \* 89
    St({"explanation"}, {"falsify_result"}, None, None),                \* 91-108
    St({"timestamp"}, None, None, None),                                \* 112
    St({"result"}, {"timestamp", "falsify_result", "explanation"},
       None, None) >>                                                   \* 114-122

\* _02_build_causal_model.py
BodyBuild == <<
    St({"causal_model_type"}, None, None, None),                        \* 50
    St(None, None, None, None),                                         \* 52 seed
    St({"deserialized_data", "observation"}, None,
       Fails("observation", {"missing", "bad"}), None),                 \* 56-61
    St({"causal_relationship", "causal_graph"}, None,
       Fails("causal_relationships", {"missing", "bad"}), None),        \* 65-66
    St({"causal_model"}, {"causal_model_type", "causal_graph"}, None,
       Fails("causal_model_type", {"ok"})),                             \* 69-72
    St({"summary_auto_assignment"}, {"causal_model", "observation"},
       Fails("query", {"bad"}), None),                                  \* 75
    St(None, {"causal_model", "observation"},
       Fails("query", {"bad"}), None),                                  \* 78
    St({"model_save_path"}, None,
       Fails("model_path", {"missing"}) \cup Fails("model_name", {"missing"}),
       None),                                                           \* 81
    St({"file"}, {"model_save_path", "causal_model"},
       Fails("model_path", {"bad"}) \cup Fails("model_name", {"bad"})
           \cup Fails("save", {"bad"}), None),                          \* 82-83
    St({"timestamp"}, None, None, None),                                \* 87
    St({"result"}, {"timestamp", "model_save_path"}, None, None) >>     \* 89-95

\* _03_evaluate_causal_model.py
BodyEvaluate == <<
    St({"model_evaluation_to_text"}, None, None, None),                 \* 52-83
    St(None, None, None, None),                                         \* 86 seed
    St({"deserialized_data", "observation"}, None,
       Fails("observation", {"missing", "bad"}), None),                 \* 90-95
    St({"file", "causal_model"}, None,
       Fails("model_path", {"missing", "bad"}), None),                  \* 98-99
    St({"summary_evaluation"}, {"causal_model", "observation"},
       Fails("query", {"bad"}), None),                                  \* 102-106
    St({"timestamp"}, None, None, None),                                \* 109
    St({"result"}, {"timestamp", "summary_evaluation",
                    "model_evaluation_to_text"}, None, None) >>         \* 112-117

\* _04_arrow_strength.py; timestamp is bound before the try (line 75).
BodyArrow == <<
    St({"target_node"}, None, None, None),                              \* 79
    St({"model_path"}, None, None, None),                               \* 80
    St(None, None, None, None),                                         \* 83 seed
    St({"file", "causal_model"}, {"model_path"},
       Fails("model_path", {"missing", "bad"}), None),                  \* 86-87
    St({"arrow_strengths_median", "arrow_strengths_intervals"},
       {"causal_model", "target_node"},
       Fails("target_node", {"missing", "bad"}) \cup Fails("query", {"bad"}),
       None),                                                           \* 90-93
    St({"arrow_strengths", "arrow_strengths_pct"},
       {"arrow_strengths_median"}, None, None),                         \* 95-96
    St({"arrow_strengths_node", "arrow_strengths_pct_node",
        "arrow_strengths_intervals_node"},
       {"arrow_strengths", "arrow_strengths_pct", "arrow_strengths_intervals"},
       None, None),                                                     \* 100-114
    St({"arrow_strengths_edge_str", "arrow_strengths_pct_edge_str",
        "arrow_strengths_intervals_edge_str"},
       {"arrow_strengths", "arrow_strengths_pct", "arrow_strengths_intervals"},
       None, None),                                                     \* 117-119
    St({"result"},
       {"timestamp", "target_node", "arrow_strengths_edge_str",
        "arrow_strengths_pct_edge_str", "arrow_strengths_intervals_edge_str",
        "arrow_strengths_node", "arrow_strengths_pct_node",
        "arrow_strengths_intervals_node"}, None, None) >>               \* 122-133

\* _05_intrinsic_causal_influence.py; timestamp is bound before the try (line 64).
BodyIntrinsic == <<
    St({"target_node"}, None, None, None),                              \* 68
    St({"model_path"}, None, None, None),                               \* 69
    St({"num_samples_randomization"}, None, None, None),                \* 70
    St(None, None, None, None),                                         \* 73 seed
    St({"file", "causal_model"}, {"model_path"},
       Fails("model_path", {"missing", "bad"}), None),                  \* 76-77
    St({"intrinsic_influence_median", "intrinsic_influence_intervals"},
       {"causal_model", "target_node", "num_samples_randomization"},
       Fails("target_node", {"missing", "bad"})
           \cup Fails("num_samples_randomization", {"missing", "bad"})
           \cup Fails("query", {"bad"}), None),                         \* 80-84
    St({"intrinsic_influence", "intrinsic_influence_pct"},
       {"intrinsic_influence_median"}, None, None),                     \* 86-87
    St({"intrinsic_influence_dict", "intrinsic_influence_pct_dict",
        "intrinsic_influence_intervals_dict"},
       {"intrinsic_influence", "intrinsic_influence_pct",
        "intrinsic_influence_intervals"}, None, None),                  \* 90-105
    St({"result"},
       {"timestamp", "target_node", "num_samples_randomization",
        "intrinsic_influence_dict", "intrinsic_influence_pct_dict",
        "intrinsic_influence_intervals_dict"}, None, None) >>           \* 108-117

\* _06_interventional_samples.py; timestamp is bound before the try (line 60).
BodyIntervene == <<
    St({"model_path"}, None, None, None),                               \* 63
    St({"intervention_user_input"}, None,
       Fails("intervention_input", {"missing", "bad"}), None),          \* 64
    St({"num_samples_to_draw"}, None, None, None),                      \* 65
    St({"intervention_type"}, None, None, None),                        \* 66
    St(None, None, None, None),                                         \* 69 seed
    St({"file", "causal_model"}, {"model_path"},
       Fails("model_path", {"missing", "bad"}), None),                  \* 72-73
    St({"intervention"}, {"intervention_type", "intervention_user_input"},
       None, Fails("intervention_type", {"ok"})),                       \* 76-79
    St({"intervention_sample"},
       {"causal_model", "intervention", "num_samples_to_draw"},
       Fails("num_samples_to_draw", {"missing", "bad"})
           \cup Fails("query", {"bad"}), None),                         \* 82
    St({"intervention_sample_json"}, {"intervention_sample"}, None, None), \* 83
    St({"result"},
       {"timestamp", "intervention_type", "intervention_sample_json"},
       None, None) >>                                                   \* 86-93

\* _07_computing_counterfactuals.py; timestamp is bound before the try (line 76).
BodyCounterfactual == <<
    St({"model_path"}, None, None, None),                               \* 79
    St({"counterfactual_user_input"}, None,
       Fails("counterfactual_input", {"missing", "bad"}), None),        \* 80
    St({"observation"}, None,
       Fails("observation", {"missing", "bad", "object"}), None),       \* 81
    St(None, None, None, None),                                         \* 84 seed
    St({"file", "causal_model"}, {"model_path"},
       Fails("model_path", {"missing", "bad"}), None),                  \* 87-88
    St({"counterfactual"}, {"counterfactual_user_input"}, None, None),  \* 91
    St({"counterfactuals_sample"},
       {"causal_model", "counterfactual", "observation"},
       Fails("query", {"bad"}), None),                                  \* 94
    St({"counterfactuals_sample_json"}, {"counterfactuals_sample"},
       None, None),                                                     \* 95
    St({"result"}, {"timestamp", "counterfactuals_sample_json"},
       Fails("observation", {"object"}), None) >>                       \* 98-105

\* _08_anomaly_attribution.py; timestamp is bound before the try (line 79).
BodyAnomaly == <<
    St({"model_path"}, None, None, None),                               \* 83
    St({"anomalous_node"}, None, None, None),                           \* 84
    St({"anomaly_data"}, None,
       Fails("anomaly_data", {"missing", "bad", "object"}), None),      \* 85
    St(None, None, None, None),                                         \* 88 seed
    St({"file", "causal_model"}, {"model_path"},
       Fails("model_path", {"missing", "bad"}), None),                  \* 91-92
    St({"attribution_scores_median", "attribution_scores_intervals"},
       {"causal_model", "anomalous_node", "anomaly_data"},
       Fails("anomalous_node", {"missing", "bad"}) \cup Fails("query", {"bad"}),
       None),                                                           \* 95-99
    St({"attribution_scores", "attribution_scores_pct"},
       {"attribution_scores_median"}, None, None),                      \* 101-102
    St({"attribution_scores_dict", "attribution_scores_pct_dict",
        "attribution_scores_intervals_dict"},
       {"attribution_scores", "attribution_scores_pct",
        "attribution_scores_intervals"}, None, None),                   \* 105-121
    St({"result"},
       {"timestamp", "attribution_scores_dict", "attribution_scores_pct_dict",
        "attribution_scores_intervals_dict"},
       Fails("anomaly_data", {"object"}), None) >>                      \* 124-133

Body(e) ==
    CASE e = "falsify"        -> BodyFalsify
      [] e = "build"          -> BodyBuild
      [] e = "evaluate"       -> BodyEvaluate
      [] e = "arrow"          -> BodyArrow
      [] e = "intrinsic"      -> BodyIntrinsic
      [] e = "intervene"      -> BodyIntervene
      [] e = "counterfactual" -> BodyCounterfactual
      [] e = "anomaly"        -> BodyAnomaly

\* Locals bound before the try statement is entered.
BoundBeforeTry(e) ==
    IF e \in {"arrow", "intrinsic", "intervene", "counterfactual", "anomaly"}
    THEN {"timestamp"} ELSE {}

\* Locals the except handler reads.
HandlerReads(e) ==
    CASE e = "arrow"          -> {"timestamp"}                          \* _04: 137-148
      [] e = "intrinsic"      -> {"timestamp", "num_samples_randomization"} \* _05: 121-130
      [] e = "intervene"      -> {"timestamp", "intervention_type"}     \* _06: 97-104
      [] e = "counterfactual" -> {"timestamp"}                          \* _07: 108-115
      [] e = "anomaly"        -> {"timestamp"}                          \* _08: 137-146
      [] OTHER                -> {}          \* _01, _02, _03 bind timestamp in the handler

\* The result fields of each entry point and the local each is built from.
ResultSource(e) ==
    CASE e = "falsify" ->
           [falsifiable |-> "falsify_result", falsified |-> "falsify_result",
            explanation |-> "explanation"]
      [] e = "build" -> [saved_path |-> "model_save_path"]
      [] e = "evaluate" -> [summary_evaluation |-> "summary_evaluation"]
      [] e = "arrow" ->
           [arrow_strength_edge |-> "arrow_strengths_edge_str",
            arrow_strength_edge_pct |-> "arrow_strengths_pct_edge_str",
            arrow_strengths_edge_intervals |-> "arrow_strengths_intervals_edge_str",
            arrow_strength_node |-> "arrow_strengths_node",
            arrow_strength_node_pct |-> "arrow_strengths_pct_node",
            arrow_strengths_node_intervals |-> "arrow_strengths_intervals_node"]
      [] e = "intrinsic" ->
           [intrinsic_influence |-> "intrinsic_influence_dict",
            intrinsic_influence_pct |-> "intrinsic_influence_pct_dict",
            intrinsic_influence_intervals |-> "intrinsic_influence_intervals_dict"]
      [] e = "intervene" -> [intervention_output |-> "intervention_sample_json"]
      [] e = "counterfactual" ->
           [counterfactual_output |-> "counterfactuals_sample_json"]
      [] e = "anomaly" ->
           [anomaly_attribution |-> "attribution_scores_dict",
            anomaly_attribution_pct |-> "attribution_scores_pct_dict",
            anomaly_attribution_confidence |-> "attribution_scores_intervals_dict"]

ResultFields(e) == DOMAIN ResultSource(e)

Kind(k) == IF k \in EnvKeys THEN env[k] ELSE data[k]

Matches(pairs) == \E p \in pairs : Kind(p[1]) = p[2]

\* The step raises: it reads an unbound local, or its input is rejected.
StepRaises(s) == ~(s.r \subseteq locals) \/ Matches(s.f)

StepBinds(s) == IF s.only = None \/ Matches(s.only) THEN s.a ELSE {}

\* The dictionary the try body ends with: every result field from its local.
SuccessResult(e, bound) ==
    [status |-> "success",
     fields |-> [f \in ResultFields(e) |->
                   IF ResultSource(e)[f] \in bound THEN "value" ELSE Null]]

\* A handler that would hand back whatever the try body had computed.
ErrorResultKeepingLocals(e, bound) ==
    [status |-> "error",
     fields |-> [f \in ResultFields(e) |->
                   IF ResultSource(e)[f] \in bound THEN "value" ELSE Null]]

\* The dictionary the except handler builds: every result field None.
ErrorResult(e, bound) ==
    [status |-> "error", fields |-> [f \in ResultFields(e) |-> Null]]

\* The handler itself raises: an unbound local, or json.dumps of an object.
HandlerRaises(e) ==
    \/ ~(HandlerReads(e) \subseteq locals)
    \/ \E k \in DumpedKeys(e) : data[k] = "object"

EntryIdle ==
    /\ ep = "none" /\ data = <<>> /\ env = <<>>
    /\ pc = "idle" /\ step = 0 /\ locals = {} /\ result = Null

\* on_receive(data) is called.
Receive ==
    /\ pc = "idle"
    /\ \E e \in EntryPoints :
         /\ ep' = e
         /\ \E d \in [Keys(e) -> PlainKinds \cup {"object"}] :
              /\ \A k \in Keys(e) : d[k] \in KindsOf(e, k)
              /\ data' = d
         /\ locals' = BoundBeforeTry(e)
    /\ env' \in [EnvKeys -> {"ok", "bad"}]
    /\ pc' = "try" /\ step' = 1
    /\ result' = Null
    /\ UNCHANGED notEntry

\* One step of the try body.
TryStep ==
    /\ pc = "try"
    /\ LET s == Body(ep)[step] IN
         IF StepRaises(s)
         THEN /\ pc' = "except"
              /\ UNCHANGED <<step, locals, result>>
         ELSE /\ locals' = locals \cup StepBinds(s)
              /\ IF step = Len(Body(ep))
                 THEN /\ pc' = "returned"
                      /\ result' = SuccessResult(ep, locals')
                      /\ step' = step
                 ELSE /\ pc' = "try"
                      /\ step' = step + 1
                      /\ result' = result
    /\ UNCHANGED <<ep, data, env>>
    /\ UNCHANGED notEntry

\* except Exception as e: build the error dictionary and return it.
Except ==
    /\ pc = "except"
    /\ IF HandlerRaises(ep)
       THEN /\ pc' = "raised"
            /\ result' = result
       ELSE /\ pc' = "returned"
            /\ result' = ErrorResult(ep, locals)
    /\ UNCHANGED <<ep, data, env, step, locals>>
    /\ UNCHANGED notEntry

NextEntry == Receive \/ TryStep \/ Except

(***************************************************************************)
(* Claims of Part 1                                                        *)
(***************************************************************************)

\* C1: every call of every entry point, whatever its input dictionary, ends
\* with a returned dictionary; no exception leaves on_receive.
C1_NoExceptionPropagates == pc # "raised"

\* C1 fails first on the interventional-sample entry point, when line 64
\* raises before line 66 has bound intervention_type.
C1_RaisedBeforeBinding ==
    /\ pc = "raised" /\ ep = "intervene"
    /\ "intervention_type" \notin locals

AllNull(r) == \A f \in DOMAIN r.fields : r.fields[f] = Null
NoneNull(r) == \A f \in DOMAIN r.fields : r.fields[f] # Null

\* C2: a returned dictionary is never partial: status "error" exactly when
\* every result field is null, status "success" exactly when none is.
C2_NoPartialResult ==
    pc = "returned" =>
        /\ result.status \in {"success", "error"}
        /\ (result.status = "error") <=> AllNull(result)
        /\ (result.status = "success") <=> NoneNull(result)

\* An error returned after the try body had already computed a result field
\* (build: the save fails after the path was computed).
C2_ErrorAfterPartialWork ==
    /\ pc = "returned" /\ result.status = "error"
    /\ \E f \in ResultFields(ep) : ResultSource(ep)[f] \in locals

(***************************************************************************)
(* Part 2.  convert_to_percentage                                          *)
(*                                                                         *)
(* Scores are integers (a fixed unit); a percentage is the exact rational  *)
(* <<numerator, denominator>>, so abs(v) / total * 100 is <<abs(v) * 100,  *)
(* total>>.  The rounding of the float division is not modelled.           *)
(***************************************************************************)

MaxScore == 2                       \* scores range over -MaxScore..MaxScore
ScoreKeys == {"altitude", "engine_load", "ambient_temp"}

Abs(x) == IF x < 0 THEN -x ELSE x

RECURSIVE SumOver(_, _)
\* np.sum([... for v in m.values()]) over the keys S of m
SumOver(m, S) ==
    IF S = {} THEN 0
    ELSE LET k == CHOOSE x \in S : TRUE IN m[k] + SumOver(m, S \ {k})

\* np.sum([abs(v) for v in value_dictionary.values()])
total_absolute_sum(m) == SumOver([k \in DOMAIN m |-> Abs(m[k])], DOMAIN m)

\* A version that forgets abs() in the numerator.
convert_to_percentage_signed(m) ==
    IF total_absolute_sum(m) = 0
    THEN [k \in DOMAIN m |-> <<0, 1>>]
    ELSE [k \in DOMAIN m |-> <<m[k] * 100, total_absolute_sum(m)>>]

\* _04_arrow_strength.py 67-72 (the same text in _05 56-61 and _08 72-77)
convert_to_percentage(m) ==
    IF total_absolute_sum(m) = 0
    THEN [k \in DOMAIN m |-> <<0, 1>>]
    ELSE [k \in DOMAIN m |-> <<Abs(m[k]) * 100, total_absolute_sum(m)>>]

PctIdle == value_dictionary = <<>> /\ pct = <<>> /\ pctPc = "idle"

\* The estimator hands over a score map: any keys, any scores.
PctCall ==
    /\ pctPc = "idle"
    /\ \E S \in SUBSET ScoreKeys :
         value_dictionary' \in [S -> -MaxScore..MaxScore]
    /\ pctPc' = "called"
    /\ pct' = pct
    /\ UNCHANGED notPct

PctReturn ==
    /\ pctPc = "called"
    /\ pct' = convert_to_percentage(value_dictionary)
    /\ pctPc' = "returned"
    /\ UNCHANGED value_dictionary
    /\ UNCHANGED notPct

NextPct == PctCall \/ PctReturn

(***************************************************************************)
(* Claims of Part 2                                                        *)
(***************************************************************************)

\* All percentages of one map share the denominator, so they sum to 100
\* exactly when the numerators sum to 100 times the denominator.
SumsTo100(p) ==
    \E den \in {p[k][2] : k \in DOMAIN p} :
        /\ \A k \in DOMAIN p : p[k][2] = den
        /\ den # 0
        /\ SumOver([k \in DOMAIN p |-> p[k][1]], DOMAIN p) = 100 * den

AllZeroScores(m) == \A k \in DOMAIN m : m[k] = 0

Range(q) == {q[i] : i \in DOMAIN q}

Min(S) == CHOOSE x \in S : \A y \in S : x <= y

AppendNew(q, x) == IF x \in Range(q) THEN q ELSE Append(q, x)

RECURSIVE NodesUpTo(_, _)
\* The nodes of the first i edges, each edge adding its source, then its
\* target, when new.
NodesUpTo(edges, i) ==
    IF i = 0 THEN <<>>
    ELSE AppendNew(AppendNew(NodesUpTo(edges, i - 1), edges[i][1]), edges[i][2])

\* graph.nodes: the nodes in the order the edge list first names them.
NodeSeq(edges) == NodesUpTo(edges, Len(edges))

NodeSet(edges) == Range(NodeSeq(edges))

\* graph.predecessors(x)
Parents(edges, x) == {e[1] : e \in {d \in Range(edges) : d[2] = x}}

IsRoot(edges, x) == Parents(edges, x) = {}

RECURSIVE Kahn(_, _)
\* Append, as long as there is one, the first node of graph.nodes that is not
\* placed yet and has all its parents placed.
Kahn(edges, placed) ==
    LET ns == NodeSeq(edges)
        ready == {i \in DOMAIN ns :
                    /\ ns[i] \notin Range(placed)
                    /\ Parents(edges, ns[i]) \subseteq Range(placed)}
    IN IF ready = {} THEN placed
       ELSE Kahn(edges, Append(placed, ns[Min(ready)]))

\* An order that ignores the edges.
InsertionOrder(edges) == NodeSeq(edges)

\* topological_order(); shorter than graph.nodes when the graph has a cycle.
TopologicalSort(edges) == Kahn(edges, <<>>)

HasCycle(edges) == Len(TopologicalSort(edges)) < Len(NodeSeq(edges))

Children(edges, x) == {e[2] : e \in {d \in Range(edges) : d[1] = x}}

RECURSIVE Reach(_, _)
Reach(edges, S) ==
    LET T == S \cup UNION {Children(edges, x) : x \in S}
    IN IF T = S THEN S ELSE Reach(edges, T)

\* nx.descendants(graph, x)
Descendants(edges, x) == Reach(edges, Children(edges, x))

(***************************************************************************)
(* Part 3.  INTERVENTIONAL SAMPLES                                         *)
(*                                                                         *)
(* on_receive builds one rule per variable of the input list and hands     *)
(* them to gcm.interventional_samples.  Values are integers.  A root draws *)
(* its noise; a non-root node is the sum of its parents plus its noise     *)
(* (an additive-noise mechanism); the noise of every draw is arbitrary.    *)
(***************************************************************************)

MaxSamples == 2                     \* num_samples_to_draw ranges over 0..MaxSamples

Variables == {"altitude", "engine_load", "engine_rpm"}
UnknownVariable == "speed"          \* not a node of any fitted model
InterventionValues == {3, 5}
Noise == {0, 1}

\* The graphs of the fitted models a query may load.
FittedGraphs ==
    { << <<"altitude", "engine_load">>, <<"engine_load", "engine_rpm">> >>,
      << <<"engine_load", "engine_rpm">>, <<"altitude", "engine_load">> >>,
      << <<"altitude", "engine_rpm">>, <<"engine_load", "engine_rpm">> >>,
      << <<"altitude", "engine_load">>, <<"altitude", "engine_rpm">> >>,
      << <<"engine_load", "engine_rpm">>, <<"altitude", "engine_rpm">>,
         <<"altitude", "engine_load">> >> }

\* ast.literal_eval(data.get("intervention_input").strip()): up to two pairs.
InterventionInputs ==
    LET Pairs == (Variables \cup {UnknownVariable}) \X InterventionValues
    IN UNION {[1..k -> Pairs] : k \in 0..2}

\* The value of the last pair of the list that names k.
LastValueFor(input, k) ==
    LET hits == {i \in DOMAIN input : input[i][1] = k}
    IN input[CHOOSE i \in hits : \A j \in hits : j <= i][2]

\* The dictionary rebuilt at every pair: only the last pair is left.
RulesOfLastPair(kind, input) ==
    IF input = <<>> THEN <<>>
    ELSE [k \in {input[Len(input)][1]} |->
            [kind |-> kind, value |-> input[Len(input)][2]]]

\* Rules that all see the loop variable as the loop left it (late binding).
RulesLateBound(kind, input) ==
    [k \in {input[i][1] : i \in DOMAIN input} |->
        [kind |-> kind, value |-> input[Len(input)][2]]]

\* A dictionary that keeps the first value given for a key.
RulesKeepingFirst(kind, input) ==
    [k \in {input[i][1] : i \in DOMAIN input} |->
        [kind |-> kind,
         value |-> input[Min({i \in DOMAIN input : input[i][1] = k})][2]]]

\* {key: (lambda value: lambda variable: ...)(val) for key, val in input}:
\* a closure per key, holding the val of its own pair; a later pair with the
\* same key replaces an earlier one.
Rules(kind, input) ==
    [k \in {input[i][1] : i \in DOMAIN input} |->
        [kind |-> kind, value |-> LastValueFor(input, k)]]

\* The shift closure written with the body of the atomic one.
ApplyRuleAlwaysConstant(rule, variable) == rule.value

\* Calling a rule on the natural value of its node.
\*   atomic: lambda variable: value          shift: lambda variable: variable + value
ApplyRule(rule, variable) ==
    IF rule.kind = "atomic" THEN rule.value ELSE variable + rule.value

\* The natural draw of node x in row r from the values resolved so far.
Draw(edges, table, x, r, noise) ==
    SumOver([p \in Parents(edges, x) |-> table[p][r]], Parents(edges, x)) + noise

\* One rule of the dictionary applied to every node.
EvaluateInterventionOnEveryNode(rules, x, natural) ==
    IF DOMAIN rules = {} THEN natural
    ELSE ApplyRule(rules[CHOOSE k \in DOMAIN rules : TRUE], natural)

\* The value of node x: its rule applied to the natural draw when it has one.
EvaluateIntervention(rules, x, natural) ==
    IF x \in DOMAIN rules THEN ApplyRule(rules[x], natural) ELSE natural

\* The order in which sample visits the nodes.
VisitOrder(edges) == TopologicalSort(edges)

\* A local that no statement has bound, and one bound to a dictionary.
Unbound == [bound |-> FALSE, rules |-> <<>>]
Bound(rules) == [bound |-> TRUE, rules |-> rules]

SmIdle ==
    /\ smPc = "idle" /\ smModel = <<>> /\ intervention_user_input = <<>>
    /\ intervention_type = "none" /\ num_samples_to_draw = 0
    /\ intervention = Unbound /\ smOrder = <<>> /\ smPos = 0
    /\ smStatus = <<>> /\ smResolved = <<>> /\ smStale = FALSE
    /\ intervention_sample = <<>> /\ smResult = <<>> /\ observed_data = <<>>

\* Lines 63-73: the inputs are read and the fitted model is loaded.
SmReceive ==
    /\ smPc = "idle"
    /\ smModel' \in FittedGraphs
    /\ intervention_user_input' \in InterventionInputs
    /\ intervention_type' \in {"atomic", "shift", "other"}
    /\ num_samples_to_draw' \in 0..MaxSamples
    /\ smPc' = "rules"
    /\ UNCHANGED <<intervention, smOrder, smPos, smStatus, smResolved, smStale,
                   intervention_sample, smResult, observed_data>>
    /\ UNCHANGED notSm

\* Lines 76-79: the rules are built; no branch binds them for another type.
SmRules ==
    /\ smPc = "rules"
    /\ intervention' =
         IF intervention_type \in {"atomic", "shift"}
         THEN Bound(Rules(intervention_type, intervention_user_input))
         ELSE Unbound
    /\ smPc' = "call"
    /\ UNCHANGED <<smModel, intervention_user_input, intervention_type,
                   num_samples_to_draw, smOrder, smPos, smStatus, smResolved,
                   smStale, intervention_sample, smResult, observed_data>>
    /\ UNCHANGED notSm

\* Line 82, entering interventional_samples: an unbound intervention or an
\* unknown target raises, and so does a draw of zero rows (the regressor of
\* the first node with parents refuses to predict on an empty table);
\* otherwise every node is pending.
SmCall ==
    /\ smPc = "call"
    /\ IF \/ ~intervention.bound
          \/ ~(DOMAIN intervention.rules \subseteq NodeSet(smModel))
          \/ num_samples_to_draw = 0
       THEN /\ smPc' = "except"
            /\ UNCHANGED <<smOrder, smPos, smStatus, smResolved,
                           intervention_sample, observed_data>>
       ELSE /\ smPc' = "sampling"
            /\ smOrder' = VisitOrder(smModel)
            /\ smPos' = 1
            /\ smStatus' = [x \in NodeSet(smModel) |-> "pending"]
            /\ smResolved' = [x \in NodeSet(smModel) |-> 0]
            /\ intervention_sample' =
                 [x \in NodeSet(smModel) |-> [r \in 1..num_samples_to_draw |-> 0]]
            /\ observed_data' =
                 [x \in NodeSet(smModel) |-> [r \in 1..num_samples_to_draw |-> 0]]
    /\ UNCHANGED <<smModel, intervention_user_input, intervention_type,
                   num_samples_to_draw, intervention, smStale, smResult>>
    /\ UNCHANGED notSm

\* The next node of the order is resolved in every row.
SmResolve ==
    /\ smPc = "sampling"
    /\ smPos <= Len(smOrder)
    /\ LET x == smOrder[smPos] IN
         /\ \E noise \in [1..num_samples_to_draw -> Noise] :
              /\ intervention_sample' =
                   [intervention_sample EXCEPT ![x] =
                      [r \in 1..num_samples_to_draw |->
                         EvaluateIntervention(intervention.rules, x,
                           Draw(smModel, intervention_sample, x, r, noise[r]))]]
              /\ observed_data' =
                   [observed_data EXCEPT ![x] =
                      [r \in 1..num_samples_to_draw |->
                         Draw(smModel, observed_data, x, r, noise[r])]]
         /\ smStatus' = [smStatus EXCEPT ![x] = "resolved"]
         /\ smResolved' = [smResolved EXCEPT ![x] = @ + 1]
         /\ smStale' =
              (smStale \/ \E p \in Parents(smModel, x) : smStatus[p] = "pending")
    /\ smPos' = smPos + 1
    /\ UNCHANGED <<smPc, smModel, intervention_user_input, intervention_type,
                   num_samples_to_draw, intervention, smOrder, smResult>>
    /\ UNCHANGED notSm

\* intervention_sample.to_json(orient='records'): the table as a list of
\* rows, each row a record of the columns.
ToRecords(table, n) == [r \in 1..n |-> [x \in DOMAIN table |-> table[x][r]]]

\* Every node of the order was visited: the table is returned, and lines
\* 83-93 build the success result around its rows.
SmReturn ==
    /\ smPc = "sampling"
    /\ smPos > Len(smOrder)
    /\ smResult' =
         [status |-> "success",
          intervention_output |->
              [rows |-> ToRecords(intervention_sample, num_samples_to_draw)]]
    /\ smPc' = "done"
    /\ UNCHANGED <<smModel, intervention_user_input, intervention_type,
                   num_samples_to_draw, intervention, smOrder, smPos, smStatus,
                   smResolved, smStale, intervention_sample, observed_data>>
    /\ UNCHANGED notSm

\* Lines 95-104: the error result.
SmExcept ==
    /\ smPc = "except"
    /\ smResult' = [status |-> "error", intervention_output |-> Null]
    /\ smPc' = "error"
    /\ UNCHANGED <<smModel, intervention_user_input, intervention_type,
                   num_samples_to_draw, intervention, smOrder, smPos, smStatus,
                   smResolved, smStale, intervention_sample, observed_data>>
    /\ UNCHANGED notSm

NextSm ==
    SmReceive \/ SmRules \/ SmCall \/ SmResolve \/ SmReturn \/ SmExcept

(***************************************************************************)
(* Claims of Part 3                                                        *)
(***************************************************************************)

\* The pairs of the input list that no later pair overrides.
EffectivePairs ==
    {i \in DOMAIN intervention_user_input :
        \A j \in DOMAIN intervention_user_input :
            j > i => intervention_user_input[j][1] # intervention_user_input[i][1]}

\* C4: after an atomic intervention on node X with value v, every row of the
\* returned table has X = v, whatever X's parents and noise were.
C4_AtomicInterventionHolds ==
    (smPc = "done" /\ intervention_type = "atomic") =>
        \A i \in EffectivePairs :
            \A r \in 1..num_samples_to_draw :
                intervention_sample[intervention_user_input[i][1]][r]
                    = intervention_user_input[i][2]

\* Two atomic interventions with different values, one of them on a node
\* that has parents, and at least one row drawn.
C4_AtomicOnChildSampled ==
    /\ smPc = "done" /\ intervention_type = "atomic"
    /\ num_samples_to_draw > 0
    /\ Len(intervention_user_input) = 2
    /\ intervention_user_input[1][2] # intervention_user_input[2][2]
    /\ intervention_user_input[1][1] # intervention_user_input[2][1]
    /\ ~IsRoot(smModel, intervention_user_input[1][1])

\* C8: in one sample run no node is resolved twice, a node is resolved
\* exactly when it was resolved once, no value is computed from a pending
\* parent, and at the end every node is resolved.
C8_ResolvedOnceInOrder ==
    smPc \in {"sampling", "done"} =>
        /\ ~smStale
        /\ \A x \in NodeSet(smModel) :
             /\ smResolved[x] <= 1
             /\ (smStatus[x] = "resolved") <=> (smResolved[x] = 1)
        /\ smPc = "done" => \A x \in NodeSet(smModel) : smStatus[x] = "resolved"

\* A run is over on a model whose edge list names a child before its parent.
C8_RunOverScrambledModel ==
    /\ smPc = "done" /\ num_samples_to_draw > 0
    /\ NodeSeq(smModel) # TopologicalSort(smModel)

\* Some pair of the list names a variable that is not a node of the model.
NamesUnknownTarget ==
    \E i \in DOMAIN intervention_user_input :
        intervention_user_input[i][1] \notin NodeSet(smModel)

\* C14: an interventional-sample query whose list names a variable that is
\* not a node of the model draws nothing and ends in an error result without
\* a sample table.
C14_UnknownTargetFails ==
    (smPc # "idle" /\ NamesUnknownTarget) =>
        /\ smPc \notin {"sampling", "done"}
        /\ intervention_sample = <<>>
        /\ smPc = "error" =>
              /\ smResult.status = "error"
              /\ smResult.intervention_output = Null

\* Such a query failed: its list names an unknown variable before a node of
\* the model, its type is valid and it asked for rows.
C14_UnknownBeforeKnown ==
    /\ smPc = "error" /\ intervention_type = "atomic"
    /\ num_samples_to_draw > 0
    /\ Len(intervention_user_input) = 2
    /\ intervention_user_input[1][1] \notin NodeSet(smModel)
    /\ intervention_user_input[2][1] \in NodeSet(smModel)

\* The query is well formed: its type is one of the two and every variable
\* of its list is a node of the model.
WellFormedQuery == intervention.bound /\ ~NamesUnknownTarget

\* C15: a well-formed query for n rows returns a success whose table has
\* exactly n rows, each with a value for every node of the graph; for n = 0
\* the table is empty and the result is still a success.
C15_ExactlyNRows ==
    (smPc \in {"done", "error"} /\ WellFormedQuery) =>
        /\ smResult.status = "success"
        /\ Len(smResult.intervention_output.rows) = num_samples_to_draw
        /\ \A r \in DOMAIN smResult.intervention_output.rows :
               DOMAIN smResult.intervention_output.rows[r] = NodeSet(smModel)

\* The nodes the list names, and those with their descendants.
Targets == {intervention_user_input[i][1] : i \in DOMAIN intervention_user_input}
Touched == Targets \cup UNION {Descendants(smModel, x) : x \in Targets}

\* C16: under an atomic intervention every node that is neither intervened
\* on nor a descendant of an intervened node has, in every row, the value
\* the same draws give it in the run without the intervention.
C16_NoBackPropagation ==
    (smPc \in {"sampling", "done"} /\ intervention_type = "atomic") =>
        \A x \in NodeSet(smModel) \ Touched :
            intervention_sample[x] = observed_data[x]

\* An atomic intervention on a node with a parent changed that node, and
\* the parent drew something.
C16_ChildChangedParentKept ==
    /\ smPc = "done" /\ intervention_type = "atomic"
    /\ \E x \in Targets :
          /\ intervention_sample[x] # observed_data[x]
          /\ \E p \in Parents(smModel, x) \ Touched :
                \E r \in 1..num_samples_to_draw : observed_data[p][r] # 0

\* The noise the run drew for node x in row r, read off the table the same
\* draws give without the rules.
NoiseDrawn(x, r) ==
    observed_data[x][r]
        - SumOver([p \in Parents(smModel, x) |-> observed_data[p][r]],
                  Parents(smModel, x))

\* The natural draw of x in row r on the parent values of the returned
\* table.
NaturalOnResolvedParents(x, r) ==
    SumOver([p \in Parents(smModel, x) |-> intervention_sample[p][r]],
            Parents(smModel, x)) + NoiseDrawn(x, r)

\* C20: after a shift intervention, in every row the value of an intervened
\* node X is the natural draw of X on the resolved (possibly shifted) values
\* of its parents plus its offset, and every other node is its natural draw
\* on the resolved values of its parents, shifted ones included.
C20_ShiftOnNaturalDraw ==
    (smPc = "done" /\ intervention_type = "shift") =>
        \A r \in 1..num_samples_to_draw :
            /\ \A i \in EffectivePairs :
                   intervention_sample[intervention_user_input[i][1]][r]
                     = NaturalOnResolvedParents(intervention_user_input[i][1], r)
                         + intervention_user_input[i][2]
            /\ \A y \in NodeSet(smModel) \ Targets :
                   intervention_sample[y][r] = NaturalOnResolvedParents(y, r)

\* A shift run is over in which a node and one of its parents were both
\* shifted, by different offsets, and the node has a child that was not.
C20_ShiftedChain ==
    /\ smPc = "done" /\ intervention_type = "shift" /\ num_samples_to_draw > 0
    /\ Len(intervention_user_input) = 2
    /\ intervention_user_input[1][2] # intervention_user_input[2][2]
    /\ intervention_user_input[1][1] \in
          Parents(smModel, intervention_user_input[2][1])
    /\ Children(smModel, intervention_user_input[2][1]) # {}

(***************************************************************************)
(* Part 4.  COUNTERFACTUAL SAMPLES                                         *)
(*                                                                         *)
(* on_receive builds one constant rule per variable of the input list and  *)
(* hands them, with the observed row, to gcm.counterfactual_samples:       *)
(* abduction (the noise of every node from the observed row), action and   *)
(* prediction (every node again, in topological order, from the            *)
(* counterfactual parents and the abducted noise).                         *)
(***************************************************************************)

ObservedValues == {3, 4, 5}

\* Constant rules replaced by shift rules.
CounterfactualRulesShifting(input) == Rules("shift", input)

\* The dictionary rebuilt at every pair: only the last pair is left.
CounterfactualRulesOfLastPair(input) ==
    IF input = <<>> THEN <<>>
    ELSE Rules("atomic", <<input[Len(input)]>>)

\* Rules of the type the request names, as the interventional entry point
\* builds them.
CounterfactualRulesAsRequested(input) ==
    Rules(IF cfType = "shift" THEN "shift" ELSE "atomic", input)

\* {key: (lambda value: lambda variable: value)(val) for key, val in input}
CounterfactualRules(input) == Rules("atomic", input)

\* invert(parents_actual, node_actual): the noise that produced the row.
Invert(edges, row, x) ==
    row[x] - SumOver([p \in Parents(edges, x) |-> row[p]], Parents(edges, x))

\* The mechanism evaluated without the abducted noise.
EvaluateWithoutNoise(edges, row, x, noise) ==
    SumOver([p \in Parents(edges, x) |-> row[p]], Parents(edges, x))

\* evaluate(parents_counterfactual, noise)
Evaluate(edges, row, x, noise) ==
    SumOver([p \in Parents(edges, x) |-> row[p]], Parents(edges, x)) + noise

\* The nodes downstream of an intervened node.
Affected(edges, rules) == UNION {Descendants(edges, x) : x \in DOMAIN rules}

CfIdle ==
    /\ cfPc = "idle" /\ cfModel = <<>> /\ cfNotInvertible = {}
    /\ counterfactual_user_input = <<>> /\ observation = <<>>
    /\ counterfactual = Unbound /\ cfNoise = <<>> /\ cfPos = 0
    /\ counterfactuals_sample = <<>> /\ cfResult = <<>> /\ cfType = Null

\* Lines 79-88: the inputs are read and the fitted model is loaded.  At most
\* one mechanism of the model, of a node with parents, is not invertible.
\* The request may carry an "intervention_type"; no line reads it.
CfReceive ==
    /\ cfPc = "idle"
    /\ cfType' \in {Null, "atomic", "shift"}
    /\ \E g \in FittedGraphs :
         /\ cfModel' = g
         /\ cfNotInvertible' \in
              {{}} \cup {{x} : x \in {y \in NodeSet(g) : ~IsRoot(g, y)}}
         /\ observation' \in [NodeSet(g) -> ObservedValues]
    /\ counterfactual_user_input' \in InterventionInputs
    /\ cfPc' = "rules"
    /\ UNCHANGED <<counterfactual, cfNoise, cfPos, counterfactuals_sample,
                   cfResult>>
    /\ UNCHANGED notCf

\* Line 91: the rules are built.
CfRules ==
    /\ cfPc = "rules"
    /\ counterfactual' = Bound(CounterfactualRules(counterfactual_user_input))
    /\ cfPc' = "call"
    /\ UNCHANGED <<cfType, cfModel, cfNotInvertible, counterfactual_user_input,
                   observation, cfNoise, cfPos, counterfactuals_sample,
                   cfResult>>
    /\ UNCHANGED notCf

\* Line 94, entering counterfactual_samples: an unknown target, or a
\* mechanism downstream of an intervened node that is not invertible,
\* raises; otherwise the noise of every invertible node is abducted.
CfCall ==
    /\ cfPc = "call"
    /\ IF \/ ~(DOMAIN counterfactual.rules \subseteq NodeSet(cfModel))
          \/ Affected(cfModel, counterfactual.rules) \cap cfNotInvertible # {}
       THEN /\ cfPc' = "except"
            /\ UNCHANGED <<cfNoise, cfPos, counterfactuals_sample>>
       ELSE /\ cfPc' = "predict"
            /\ cfNoise' = [x \in NodeSet(cfModel) \ cfNotInvertible |->
                             Invert(cfModel, observation, x)]
            /\ cfPos' = 1
            /\ counterfactuals_sample' = observation
    /\ UNCHANGED <<cfType, cfModel, cfNotInvertible, counterfactual_user_input,
                   observation, counterfactual, cfResult>>
    /\ UNCHANGED notCf

\* Prediction of the next node in topological order: its rule when it is
\* intervened on, else its mechanism on the counterfactual parents and its
\* abducted noise; a node whose noise was not abducted keeps its value.
CfPredict ==
    /\ cfPc = "predict"
    /\ cfPos <= Len(TopologicalSort(cfModel))
    /\ LET x == TopologicalSort(cfModel)[cfPos] IN
         counterfactuals_sample' =
           [counterfactuals_sample EXCEPT ![x] =
              IF x \in cfNotInvertible THEN @
              ELSE EvaluateIntervention(counterfactual.rules, x,
                     Evaluate(cfModel, counterfactuals_sample, x, cfNoise[x]))]
    /\ cfPos' = cfPos + 1
    /\ UNCHANGED <<cfPc, cfType, cfModel, cfNotInvertible, counterfactual_user_input,
                   observation, counterfactual, cfNoise, cfResult>>
    /\ UNCHANGED notCf

\* Every node was predicted: the row is returned (lines 95-105).
CfReturn ==
    /\ cfPc = "predict"
    /\ cfPos > Len(TopologicalSort(cfModel))
    /\ cfResult' = [status |-> "success",
                    counterfactual_output |-> counterfactuals_sample]
    /\ cfPc' = "done"
    /\ UNCHANGED <<cfType, cfModel, cfNotInvertible, counterfactual_user_input,
                   observation, counterfactual, cfNoise, cfPos,
                   counterfactuals_sample>>
    /\ UNCHANGED notCf

\* Lines 107-116: the error result.
CfExcept ==
    /\ cfPc = "except"
    /\ cfResult' = [status |-> "error", counterfactual_output |-> Null]
    /\ cfPc' = "error"
    /\ UNCHANGED <<cfType, cfModel, cfNotInvertible, counterfactual_user_input,
                   observation, counterfactual, cfNoise, cfPos,
                   counterfactuals_sample>>
    /\ UNCHANGED notCf

NextCf ==
    CfReceive \/ CfRules \/ CfCall \/ CfPredict \/ CfReturn \/ CfExcept

(***************************************************************************)
(* Claims of Part 4                                                        *)
(***************************************************************************)

\* Every pair of the list asks for the value its variable already has.
AsksObservedValues ==
    \A i \in DOMAIN counterfactual_user_input :
        LET p == counterfactual_user_input[i]
        IN p[1] \in DOMAIN observation /\ p[2] = observation[p[1]]

\* C5: with every mechanism invertible, intervening on nodes with the values
\* they have in the observed row returns the observed values for each
\* intervened node and for all its descendants.
C5_CounterfactualIdentity ==
    (cfPc = "done" /\ cfNotInvertible = {} /\ AsksObservedValues) =>
        \A i \in DOMAIN counterfactual_user_input :
            LET x == counterfactual_user_input[i][1]
            IN \A y \in {x} \cup Descendants(cfModel, x) :
                   counterfactuals_sample[y] = observation[y]

\* Such a query is over: the intervened node has a parent and a child, and
\* the observed row needed a nonzero noise for the child.
C5_IdentityOnMiddleNode ==
    /\ cfPc = "done" /\ cfNotInvertible = {} /\ AsksObservedValues
    /\ Len(counterfactual_user_input) = 1
    /\ LET x == counterfactual_user_input[1][1]
       IN /\ ~IsRoot(cfModel, x)
          /\ \E y \in Children(cfModel, x) : Invert(cfModel, observation, y) # 0

\* Some pair of the list names a node of the graph that has a descendant
\* whose mechanism is not invertible.
NonInvertibleOnPath ==
    \E i \in DOMAIN counterfactual_user_input :
        LET x == counterfactual_user_input[i][1]
        IN /\ x \in NodeSet(cfModel)
           /\ Descendants(cfModel, x) \cap cfNotInvertible # {}

\* C13: a counterfactual query with a mechanism that is not invertible on a
\* path from an intervened node to a descendant predicts no row and ends in
\* an error result with counterfactual_output null.
C13_NonInvertiblePathFails ==
    NonInvertibleOnPath =>
        /\ cfPc \notin {"predict", "done"}
        /\ counterfactuals_sample = <<>>
        /\ cfPc = "error" =>
              /\ cfResult.status = "error"
              /\ cfResult.counterfactual_output = Null

\* Such a query failed although every variable of its list is a node.
C13_FailedOnKnownTargets ==
    /\ cfPc = "error" /\ NonInvertibleOnPath
    /\ Len(counterfactual_user_input) = 2
    /\ \A i \in DOMAIN counterfactual_user_input :
           counterfactual_user_input[i][1] \in NodeSet(cfModel)

\* The pairs of the counterfactual list that no later pair overrides.
EffectiveCfPairs ==
    {i \in DOMAIN counterfactual_user_input :
        \A j \in DOMAIN counterfactual_user_input :
            j > i => counterfactual_user_input[j][1]
                        # counterfactual_user_input[i][1]}

\* The value the mechanism of x gives on the counterfactual parents and the
\* abducted noise.
NaturalCf(x) == Evaluate(cfModel, counterfactuals_sample, x, cfNoise[x])

\* C19 as stated: a counterfactual query applies the rules of the requested
\* type as the interventional entry point does: constants for "atomic",
\* the natural value plus the offset for "shift".
C19_RequestedTypeApplied ==
    (cfPc = "done" /\ cfNotInvertible = {}) =>
        \A i \in EffectiveCfPairs :
            LET x == counterfactual_user_input[i][1]
                v == counterfactual_user_input[i][2]
            IN counterfactuals_sample[x] =
                 ApplyRule([kind |-> IF cfType = "shift" THEN "shift" ELSE "atomic",
                            value |-> v], NaturalCf(x))

\* C19 amended: a counterfactual query applies every pair of its list as an
\* atomic intervention, with the semantics the interventional entry point
\* gives to "atomic", whatever type the request names.
C19_AlwaysAtomic ==
    (cfPc = "done" /\ cfNotInvertible = {}) =>
        \A i \in EffectiveCfPairs :
            LET x == counterfactual_user_input[i][1]
                v == counterfactual_user_input[i][2]
            IN counterfactuals_sample[x] =
                 ApplyRule([kind |-> "atomic", value |-> v], NaturalCf(x))

\* A query that asked for "shift" on a node with a parent is over.
C19_ShiftAskedFor ==
    /\ cfPc = "done" /\ cfNotInvertible = {} /\ cfType = "shift"
    /\ \E i \in EffectiveCfPairs :
          ~IsRoot(cfModel, counterfactual_user_input[i][1])

\* No two pairs of the list name the same variable.
DistinctVariables(input) ==
    \A i, j \in DOMAIN input : i # j => input[i][1] # input[j][1]

\* Natural values the closures are called on.
ProbeValues == InterventionValues \cup Noise

\* C21: for a list of pairs with distinct variables the rule built for the
\* variable of pair i uses the value of pair i, not that of the last pair:
\* the atomic rule returns it, the shift rule adds it to its argument, and
\* the counterfactual rule built from the same list returns it.
C21_RuleHoldsOwnValue ==
    (intervention.bound /\ DistinctVariables(intervention_user_input)) =>
        \A i \in DOMAIN intervention_user_input :
            \A variable \in ProbeValues :
                LET key == intervention_user_input[i][1]
                    val == intervention_user_input[i][2]
                IN /\ ApplyRule(intervention.rules[key], variable) =
                        IF intervention_type = "atomic" THEN val
                        ELSE variable + val
                   /\ ApplyRule(
                        CounterfactualRules(intervention_user_input)[key],
                        variable) = val

\* Shift rules were built from two pairs on different variables with
\* different values, and were handed to the sampling.
C21_TwoShiftRulesBuilt ==
    /\ smPc = "done" /\ intervention_type = "shift"
    /\ Len(intervention_user_input) = 2
    /\ DistinctVariables(intervention_user_input)
    /\ intervention_user_input[1][2] # intervention_user_input[2][2]
    /\ DOMAIN intervention.rules =
          {intervention_user_input[1][1], intervention_user_input[2][1]}

\* The nodes the counterfactual list names, and those with their
\* descendants.
CfTargets ==
    {counterfactual_user_input[i][1] : i \in DOMAIN counterfactual_user_input}
CfTouched == CfTargets \cup UNION {Descendants(cfModel, x) : x \in CfTargets}

\* C22: through the prediction step the noise is the one abducted from the
\* observed row, and in the returned row every node that is neither
\* intervened on nor a descendant of an intervened node has its observed
\* value.
C22_UnaffectedKeepObserved ==
    /\ cfPc \in {"predict", "done"} =>
          \A x \in DOMAIN cfNoise :
              cfNoise[x] = Invert(cfModel, observation, x)
    /\ cfPc = "done" =>
          \A x \in NodeSet(cfModel) \ CfTouched :
              counterfactuals_sample[x] = observation[x]

\* A query is over that changed an intervened node and left alone a node
\* with parents whose observed value needed a nonzero noise.
C22_NoisyNodeOutsideIntervention ==
    /\ cfPc = "done"
    /\ \E x \in CfTargets : counterfactuals_sample[x] # observation[x]
    /\ \E y \in NodeSet(cfModel) \ CfTouched :
          /\ ~IsRoot(cfModel, y)
          /\ y \notin cfNotInvertible
          /\ cfNoise[y] # 0

\* The list without the pairs that a later pair of the same variable
\* overrides.
RECURSIVE WithoutOverridden(_)
WithoutOverridden(input) ==
    IF input = <<>> THEN <<>>
    ELSE IF \E j \in DOMAIN Tail(input) : Tail(input)[j][1] = Head(input)[1]
         THEN WithoutOverridden(Tail(input))
         ELSE <<Head(input)>> \o WithoutOverridden(Tail(input))

\* C30: when the list names a variable more than once, the dictionary
\* holds one rule per variable named, with the value of the last pair that
\* names it, and is the dictionary the list gives without the earlier
\* pairs; so is the dictionary of counterfactual rules built from the same
\* list, and a sampled table holds the last value for the variable.
C30_LastPairWins ==
    intervention.bound =>
        /\ DOMAIN intervention.rules = Targets
        /\ \A i \in EffectivePairs :
               LET key == intervention_user_input[i][1]
                   val == intervention_user_input[i][2]
               IN /\ intervention.rules[key] =
                        [kind |-> intervention_type, value |-> val]
                  /\ CounterfactualRules(intervention_user_input)[key].value
                        = val
        /\ intervention.rules =
               Rules(intervention_type,
                     WithoutOverridden(intervention_user_input))
        /\ CounterfactualRules(intervention_user_input) =
               CounterfactualRules(WithoutOverridden(intervention_user_input))
        /\ (smPc = "done" /\ intervention_type = "atomic") =>
               \A i \in EffectivePairs : \A r \in 1..num_samples_to_draw :
                   intervention_sample[intervention_user_input[i][1]][r]
                       = intervention_user_input[i][2]

\* An atomic query was sampled whose list names one node twice, with
\* different values.
C30_SameVariableTwice ==
    /\ smPc = "done" /\ intervention_type = "atomic"
    /\ num_samples_to_draw > 0
    /\ Len(intervention_user_input) = 2
    /\ intervention_user_input[1][1] = intervention_user_input[2][1]
    /\ intervention_user_input[1][2] # intervention_user_input[2][2]
    /\ intervention_sample[intervention_user_input[2][1]][1]
          = intervention_user_input[2][2]

(***************************************************************************)
(* Part 5.  BUILD                                                          *)
(*                                                                         *)
(* _02_build_causal_model.on_receive: the observation is read, the edge    *)
(* list is parsed into a directed graph, a model object of the requested   *)
(* kind is created around it, a mechanism is assigned to every node, every *)
(* node is fitted, and the model is pickled to model_path/model_name.pkl.  *)
(* nx.DiGraph accepts any edge list; assignment and fitting walk           *)
(* graph.nodes, the order in which the edge list first mentions each node, *)
(* and neither asks for the graph to be acyclic.                           *)
(***************************************************************************)

\* Edge lists with a directed cycle: two nodes, a self-loop, three nodes, and
\* a self-loop beside an ordinary edge.
CyclicGraphs ==
    { << <<"altitude", "engine_load">>, <<"engine_load", "altitude">> >>,
      << <<"altitude", "altitude">> >>,
      << <<"altitude", "engine_load">>, <<"engine_load", "engine_rpm">>,
         <<"engine_rpm", "altitude">> >>,
      << <<"altitude", "engine_load">>, <<"engine_load", "engine_load">> >> }

\* data["causal_relationships"]: a string that literal_eval rejects, or one
\* that parses to an edge list.
CausalRelationships ==
    {[parses |-> FALSE, edges |-> <<>>]}
        \cup {[parses |-> TRUE, edges |-> g] : g \in FittedGraphs \cup CyclicGraphs}

ModelTypes == {"non-invertible", "invertible", "linear"}

\* data["observation"]: "missing" (no such key), "short" (a table that lacks
\* the column of some node), "ok" (a table with a column for every node).
ObservationKinds == {"missing", "short", "ok"}

\* The model file before the call, and what the file system will do.
FilesBefore == {"absent", "previous"}
DiskKinds == {"ok", "no directory", "full"}

NoGraph == [bound |-> FALSE, edges |-> <<>>]
NoModel == [bound |-> FALSE, kind |-> Null]

\* The column of the observation that holds categories, if any.
CategoricalColumns == {"none"} \cup Variables

\* The mechanism auto-assignment selects for a node: a root gets an
\* empirical distribution, a node with parents a classifier when its column
\* holds categories and an additive-noise model when it holds numbers.
AssignedMechanism(edges, categorical, x) ==
    IF IsRoot(edges, x) THEN "EmpiricalDistribution"
    ELSE IF x = categorical THEN "ClassifierFCM"
    ELSE "AdditiveNoiseModel"

\* The mechanisms that can recover their noise from a row.
SupportsInversion(mechanism) ==
    mechanism \in {"EmpiricalDistribution", "AdditiveNoiseModel"}

\* gcm.fit visiting the nodes in topological order.
FitOrderTopological(edges) == TopologicalSort(edges)

\* gcm.fit(causal_model, observation) visits causal_model.graph.nodes.
FitOrder(edges) == NodeSeq(edges)

BuildIdle ==
    /\ buildPc = "idle" /\ buildData = <<>> /\ disk = Null
    /\ modelFile = Null /\ modelFileBefore = Null
    /\ causal_graph = NoGraph /\ causal_model = NoModel
    /\ mechanisms = <<>> /\ fitPos = 0 /\ fitLog = <<>>
    /\ buildResult = <<>>

BuildKeep(changed) ==
    /\ IF "buildData" \in changed THEN TRUE
       ELSE UNCHANGED <<buildData, disk, modelFileBefore>>
    /\ IF "modelFile" \in changed THEN TRUE ELSE UNCHANGED modelFile
    /\ IF "causal_graph" \in changed THEN TRUE ELSE UNCHANGED causal_graph
    /\ IF "causal_model" \in changed THEN TRUE ELSE UNCHANGED causal_model
    /\ IF "mechanisms" \in changed THEN TRUE ELSE UNCHANGED mechanisms
    /\ IF "fit" \in changed THEN TRUE ELSE UNCHANGED <<fitPos, fitLog>>
    /\ IF "buildResult" \in changed THEN TRUE ELSE UNCHANGED buildResult
    /\ UNCHANGED notBuild

\* A call arrives: the request, the file already at the path, the disk.
BuildReceive ==
    /\ buildPc = "idle"
    /\ buildData' \in [causal_model_type : ModelTypes,
                       observation : ObservationKinds,
                       categorical : CategoricalColumns,
                       causal_relationships : CausalRelationships,
                       model_path : {"missing", "ok"}]
    /\ disk' \in DiskKinds
    /\ modelFile' \in FilesBefore
    /\ modelFileBefore' = modelFile'
    /\ buildPc' = "observation"
    /\ BuildKeep({"buildData", "modelFile"})

\* Lines 50-61: the kind is read with .get, the seed is set, and the
\* observation is read with data['observation'], which raises KeyError
\* when the key is missing.
BuildObservation ==
    /\ buildPc = "observation"
    /\ buildPc' = IF buildData.observation = "missing" THEN "except" ELSE "graph"
    /\ BuildKeep({})

\* Lines 65-66: literal_eval raises on a malformed string; nx.DiGraph takes
\* any list of pairs, cyclic or not.
BuildGraph ==
    /\ buildPc = "graph"
    /\ IF buildData.causal_relationships.parses
       THEN /\ causal_graph' =
                 [bound |-> TRUE, edges |-> buildData.causal_relationships.edges]
            /\ buildPc' = "create"
       ELSE /\ buildPc' = "except"
            /\ UNCHANGED causal_graph
    /\ BuildKeep({"causal_graph"})

\* The elif turned into an else: every other kind gets an invertible model.
BuildCreateWithElse ==
    /\ buildPc = "create"
    /\ causal_model' =
         [bound |-> TRUE,
          kind |-> IF buildData.causal_model_type = "non-invertible"
                   THEN "non-invertible" ELSE "invertible"]
    /\ buildPc' = "assign"
    /\ BuildKeep({"causal_model"})

\* Lines 69-72: if / elif without else; another kind binds no model.
BuildCreate ==
    /\ buildPc = "create"
    /\ causal_model' =
         IF buildData.causal_model_type \in {"non-invertible", "invertible"}
         THEN [bound |-> TRUE, kind |-> buildData.causal_model_type]
         ELSE causal_model
    /\ buildPc' = "assign"
    /\ BuildKeep({"causal_model"})

\* Line 75: reading the unbound causal_model raises UnboundLocalError; a
\* node without a column raises KeyError; otherwise every node of
\* graph.nodes gets the mechanism selected for it, whatever the kind of the
\* model object.
BuildAssign ==
    /\ buildPc = "assign"
    /\ IF causal_model.bound /\ buildData.observation = "ok"
       THEN /\ mechanisms' = [x \in NodeSet(causal_graph.edges) |->
                                AssignedMechanism(causal_graph.edges,
                                                  buildData.categorical, x)]
            /\ fitPos' = 1
            /\ fitLog' = <<>>
            /\ buildPc' = "fit"
       ELSE /\ buildPc' = "except"
            /\ UNCHANGED <<mechanisms, fitPos, fitLog>>
    /\ BuildKeep({"mechanisms", "fit"})

\* Line 78, one turn of the loop of gcm.fit: the next node is fitted on its
\* own column and the columns of its parents.
BuildFitNode ==
    /\ buildPc = "fit"
    /\ fitPos <= Len(FitOrder(causal_graph.edges))
    /\ LET x == FitOrder(causal_graph.edges)[fitPos] IN
         fitLog' = Append(fitLog,
                     [node |-> x, regressors |-> Parents(causal_graph.edges, x)])
    /\ fitPos' = fitPos + 1
    /\ UNCHANGED buildPc
    /\ BuildKeep({"fit"})

\* The save moved above the fit: the file is opened as soon as the
\* mechanisms are assigned.
BuildOpenBeforeFit ==
    /\ buildPc = "fit"
    /\ IF buildData.model_path = "ok" /\ disk # "no directory"
       THEN /\ modelFile' = "empty"
            /\ buildPc' = "dump"
       ELSE /\ buildPc' = "except"
            /\ UNCHANGED modelFile
    /\ BuildKeep({"modelFile"})

\* Lines 81-82: data["model_path"] raises KeyError when missing; open(.., 'wb')
\* raises when the directory does not exist, else it truncates the file.
BuildOpen ==
    /\ buildPc = "fit"
    /\ fitPos > Len(FitOrder(causal_graph.edges))
    /\ IF buildData.model_path = "ok" /\ disk # "no directory"
       THEN /\ modelFile' = "empty"
            /\ buildPc' = "dump"
       ELSE /\ buildPc' = "except"
            /\ UNCHANGED modelFile
    /\ BuildKeep({"modelFile"})

\* Line 83: pickle.dump writes the fitted model, or raises on a full disk.
BuildDump ==
    /\ buildPc = "dump"
    /\ IF disk = "ok"
       THEN /\ modelFile' = "fitted"
            /\ buildPc' = "success"
       ELSE /\ buildPc' = "except"
            /\ UNCHANGED modelFile
    /\ BuildKeep({"modelFile"})

\* Lines 87-95.
BuildSuccess ==
    /\ buildPc = "success"
    /\ buildResult' = [status |-> "success",
                       causal_model_type |-> buildData.causal_model_type,
                       saved_path |-> "model_path/model_name.pkl"]
    /\ buildPc' = "returned"
    /\ BuildKeep({"buildResult"})

\* Lines 97-108.
BuildExcept ==
    /\ buildPc = "except"
    /\ buildResult' = [status |-> "error",
                       causal_model_type |-> buildData.causal_model_type,
                       saved_path |-> Null]
    /\ buildPc' = "returned"
    /\ BuildKeep({"buildResult"})

NextBuild ==
    \/ BuildReceive \/ BuildObservation \/ BuildGraph \/ BuildCreate
    \/ BuildAssign \/ BuildFitNode \/ BuildOpen \/ BuildDump
    \/ BuildSuccess \/ BuildExcept

(***************************************************************************)
(* Claims of Part 5                                                        *)
(***************************************************************************)

\* The edge list of the request parses and has a directed cycle.
CyclicRequest ==
    /\ buildPc # "idle"
    /\ buildData.causal_relationships.parses
    /\ HasCycle(buildData.causal_relationships.edges)

\* C6: a build from an edge list with a directed cycle (a self-loop
\* included) returns status "error", and no fitted model is saved.
C6_CyclicBuildFails ==
    CyclicRequest =>
        /\ modelFile # "fitted"
        /\ buildPc = "returned" => buildResult.status = "error"

\* The nodes fitted so far, in the order they were fitted.
FittedNodes == [i \in DOMAIN fitLog |-> fitLog[i].node]

\* Every edge's source stands before its target in the order.
ParentsFirst(order, edges) ==
    \A e \in Range(edges) :
        \E i, j \in DOMAIN order : order[i] = e[1] /\ order[j] = e[2] /\ i < j

\* Where the flattened edge list first mentions x.
FirstMention(edges, x) ==
    Min({2 * i - 1 : i \in {k \in DOMAIN edges : edges[k][1] = x}}
        \cup {2 * i : i \in {k \in DOMAIN edges : edges[k][2] = x}})

\* The build succeeded on an acyclic edge list.
BuiltFromDag ==
    /\ buildPc = "returned" /\ buildResult.status = "success"
    /\ ~HasCycle(causal_graph.edges)

NonInvertibleSelected ==
    /\ buildPc # "idle"
    /\ buildData.causal_model_type = "invertible"
    /\ buildData.observation = "ok"
    /\ buildData.causal_relationships.parses
    /\ \E x \in NodeSet(buildData.causal_relationships.edges) :
          ~SupportsInversion(
              AssignedMechanism(buildData.causal_relationships.edges,
                                buildData.categorical, x))

\* C12: a build of kind "invertible" with a selected mechanism that does not
\* support noise inversion fails at assignment: nothing is fitted, the model
\* file is not touched, and the result is an error with saved_path null.
C12_InvertibleBuildRejects ==
    NonInvertibleSelected =>
        /\ fitLog = <<>>
        /\ modelFile \in FilesBefore
        /\ buildPc = "returned" =>
              buildResult.status = "error" /\ buildResult.saved_path = Null

\* Every node of the graph has a mechanism, and every node was fitted once.
AssignedAll == DOMAIN mechanisms = NodeSet(causal_graph.edges)
FittedAll ==
    /\ Range(FittedNodes) = NodeSet(causal_graph.edges)
    /\ Len(fitLog) = Cardinality(NodeSet(causal_graph.edges))

\* C23: the build steps happen in the order graph construction, model
\* creation, mechanism assignment, fit, save: a model object exists only
\* around a graph, mechanisms only in a model object, a node is fitted
\* only after the assignment, the file is written only after every node
\* was assigned and fitted, and "success" with a saved_path is returned
\* only after the write completed.
C23_BuildStepsInOrder ==
    /\ causal_model.bound => causal_graph.bound
    /\ mechanisms # <<>> => causal_model.bound
    /\ fitLog # <<>> => AssignedAll
    /\ modelFile \notin FilesBefore => (AssignedAll /\ FittedAll)
    /\ (buildPc = "returned" /\ buildResult.status = "success") =>
          /\ modelFile = "fitted"
          /\ buildResult.saved_path # Null
    /\ (buildPc = "returned" /\ buildResult.saved_path # Null) =>
          buildResult.status = "success"

\* A build over a file that was already there succeeded on a graph of
\* three nodes.
C23_ThreeNodesSaved ==
    /\ buildPc = "returned" /\ buildResult.status = "success"
    /\ Cardinality(NodeSet(causal_graph.edges)) = 3
    /\ Len(fitLog) = 3
    /\ modelFile = "fitted"

\* C28: whenever the build returns status "error", the file at
\* model_path/model_name.pkl has the content it had before the call.
C28_FailedBuildKeepsFile ==
    (buildPc = "returned" /\ buildResult.status = "error") =>
        modelFile = modelFileBefore

(***************************************************************************)
(* Part 6.  THE PROCESS-WIDE RANDOM SEED                                   *)
(*                                                                         *)
(* Every entry point calls gcm.util.general.set_random_seed(0), which      *)
(* seeds the generators of the process, before its stochastic step.  Two   *)
(* interventional-sample queries run in one process, one after the other   *)
(* or with their steps interleaved.  The generator is a deterministic      *)
(* stream: its state decides the value drawn and the next state.           *)
(***************************************************************************)

MaxDraws == 2

Queries == {1, 2}

\* The request: how many values the stochastic step draws, and whether the
\* model file can be loaded.
Requests == [num_samples_to_draw : 1..MaxDraws, model_path : {"ok", "missing"}]

\* The value a draw returns in a state of the generator, and the state after.
DrawValue(state) == state
NextState(state) == state + 1

\* The call left out: the generator keeps its state.
set_random_seed_skipped(state, seed) == state

\* gcm.util.general.set_random_seed(seed)
set_random_seed(state, seed) == seed

SeedIdle ==
    /\ rng = 0 /\ clock = 0
    /\ qPc = [q \in Queries |-> "idle"]
    /\ qData = <<>>
    /\ qDrawn = [q \in Queries |-> <<>>]
    /\ qResult = [q \in Queries |-> <<>>]

\* The two requests arrive; the process has used its generator before.
QReceive ==
    /\ \A q \in Queries : qPc[q] = "idle"
    /\ qData' \in [Queries -> Requests]
    /\ rng' \in 0..MaxDraws
    /\ qPc' = [q \in Queries |-> "start"]
    /\ UNCHANGED <<clock, qDrawn, qResult>>
    /\ UNCHANGED notSeed

\* Lines 60-66: the timestamp is taken and the inputs are read.
QStart(q) ==
    /\ qPc[q] = "start"
    /\ qResult' = [qResult EXCEPT ![q] = [timestamp |-> clock]]
    /\ clock' = clock + 1
    /\ qPc' = [qPc EXCEPT ![q] = "seed"]
    /\ UNCHANGED <<rng, qData, qDrawn>>
    /\ UNCHANGED notSeed

\* Line 69: the generator of the process is seeded.
QSeed(q) ==
    /\ qPc[q] = "seed"
    /\ rng' = set_random_seed(rng, 0)
    /\ qPc' = [qPc EXCEPT ![q] = "load"]
    /\ UNCHANGED <<clock, qData, qDrawn, qResult>>
    /\ UNCHANGED notSeed

\* Lines 72-73: the model is loaded, or open raises.
QLoad(q) ==
    /\ qPc[q] = "load"
    /\ qPc' = [qPc EXCEPT ![q] =
                 IF qData[q].model_path = "ok" THEN "draw" ELSE "except"]
    /\ UNCHANGED <<rng, clock, qData, qDrawn, qResult>>
    /\ UNCHANGED notSeed

\* Line 82, one draw of the stochastic step.
QDraw(q) ==
    /\ qPc[q] = "draw"
    /\ Len(qDrawn[q]) < qData[q].num_samples_to_draw
    /\ qDrawn' = [qDrawn EXCEPT ![q] = Append(@, DrawValue(rng))]
    /\ rng' = NextState(rng)
    /\ UNCHANGED <<clock, qPc, qData, qResult>>
    /\ UNCHANGED notSeed

\* Lines 83-93: the sample is returned.
QReturn(q) ==
    /\ qPc[q] = "draw"
    /\ Len(qDrawn[q]) = qData[q].num_samples_to_draw
    /\ qResult' = [qResult EXCEPT ![q] =
                     [timestamp |-> @.timestamp, status |-> "success",
                      intervention_sample |-> qDrawn[q]]]
    /\ qPc' = [qPc EXCEPT ![q] = "returned"]
    /\ UNCHANGED <<rng, clock, qData, qDrawn>>
    /\ UNCHANGED notSeed

\* Lines 95-104: the error result.
QExcept(q) ==
    /\ qPc[q] = "except"
    /\ qResult' = [qResult EXCEPT ![q] =
                     [timestamp |-> @.timestamp, status |-> "error",
                      intervention_sample |-> <<>>]]
    /\ qPc' = [qPc EXCEPT ![q] = "returned"]
    /\ UNCHANGED <<rng, clock, qData, qDrawn>>
    /\ UNCHANGED notSeed

\* One after the other: the second query starts when the first has returned.
Turn(q) == q = 1 \/ qPc[1] = "returned"

RunStart == \E q \in Queries : Turn(q) /\ QStart(q)
RunSeed == \E q \in Queries : Turn(q) /\ QSeed(q)
RunLoad == \E q \in Queries : Turn(q) /\ QLoad(q)
RunDraw == \E q \in Queries : Turn(q) /\ QDraw(q)
RunReturn == \E q \in Queries : Turn(q) /\ QReturn(q)
RunExcept == \E q \in Queries : Turn(q) /\ QExcept(q)

NextRuns ==
    \/ QReceive \/ RunStart \/ RunSeed \/ RunLoad \/ RunDraw
    \/ RunReturn \/ RunExcept

\* Concurrently: any query takes the next step.
ThreadStart == \E q \in Queries : QStart(q)
ThreadSeed == \E q \in Queries : QSeed(q)
ThreadLoad == \E q \in Queries : QLoad(q)
ThreadDraw == \E q \in Queries : QDraw(q)
ThreadReturn == \E q \in Queries : QReturn(q)
ThreadExcept == \E q \in Queries : QExcept(q)

NextThreads ==
    \/ QReceive \/ ThreadStart \/ ThreadSeed \/ ThreadLoad \/ ThreadDraw
    \/ ThreadReturn \/ ThreadExcept

(***************************************************************************)
(* Claims of Part 6                                                        *)
(***************************************************************************)

\* The fields of a result other than the timestamp.
Outcome(r) == [status |-> r.status, intervention_sample |-> r.intervention_sample]

\* C9: two runs of the entry point with identical inputs return results
\* that agree in every field other than the timestamp.
C9_RepeatedRunsAgree ==
    (qPc[1] = "returned" /\ qPc[2] = "returned" /\ qData[1] = qData[2]) =>
        Outcome(qResult[1]) = Outcome(qResult[2])

\* Two successful runs of one request are over, each drew more than once,
\* and their timestamps differ.
C9_TwoRunsDrew ==
    /\ qPc[1] = "returned" /\ qPc[2] = "returned" /\ qData[1] = qData[2]
    /\ qResult[1].status = "success"
    /\ Len(qResult[2].intervention_sample) > 1
    /\ qResult[1].timestamp # qResult[2].timestamp

\* The values n draws return from a state of the generator.
RECURSIVE Stream(_, _)
Stream(state, n) ==
    IF n = 0 THEN <<>>
    ELSE <<DrawValue(state)>> \o Stream(NextState(state), n - 1)

\* What a request returns when its query runs alone.
AloneOutcome(request) ==
    IF request.model_path = "ok"
    THEN [status |-> "success",
          intervention_sample |-> Stream(0, request.num_samples_to_draw)]
    ELSE [status |-> "error", intervention_sample |-> <<>>]

\* C10: under every interleaving of the steps of two concurrent queries,
\* each query returns what it returns when it runs alone.
C10_InterleavingInvisible ==
    \A q \in Queries :
        qPc[q] = "returned" => Outcome(qResult[q]) = AloneOutcome(qData[q])

(***************************************************************************)
(* Part 7.  FALSIFICATION                                                  *)
(*                                                                         *)
(* _01_falsify_graph.on_receive: the observation is read, the edge list is *)
(* parsed into a directed graph, falsify_graph returns the pair            *)
(* (falsifiable, falsified), and an if / elif chain picks the explanation. *)
(***************************************************************************)

TooVague == "Your causal graph is too vague to test properly."
Supported == "Great! Your causal graph is both meaningful and supported by data."
ShouldNotOccur == "Unexpected error in testing procedure."
Incorrect == "Your causal model is incorrect."

\* The pairs falsify_graph can hand back.
Verdicts == [falsifiable : BOOLEAN, falsified : BOOLEAN]

NoVerdict == [falsifiable |-> Null, falsified |-> Null]

\* The chain with its third test a copy of the fourth.
ExplanationWithCopiedTest(r) ==
    IF r.falsifiable = FALSE /\ r.falsified = FALSE THEN TooVague
    ELSE IF r.falsifiable = TRUE /\ r.falsified = FALSE THEN Supported
    ELSE IF r.falsifiable = TRUE /\ r.falsified = TRUE THEN ShouldNotOccur
    ELSE IF r.falsifiable = TRUE /\ r.falsified = TRUE THEN Incorrect
    ELSE ""

\* Lines 91-108: explanation = "" and the if / elif chain.
Explanation(r) ==
    IF r.falsifiable = FALSE /\ r.falsified = FALSE THEN TooVague
    ELSE IF r.falsifiable = TRUE /\ r.falsified = FALSE THEN Supported
    ELSE IF r.falsifiable = FALSE /\ r.falsified = TRUE THEN ShouldNotOccur
    ELSE IF r.falsifiable = TRUE /\ r.falsified = TRUE THEN Incorrect
    ELSE ""

FalIdle ==
    /\ falPc = "idle" /\ falData = <<>> /\ falsify_result = NoVerdict
    /\ explanation = Null /\ falResult = <<>>

\* A call arrives.
FalReceive ==
    /\ falPc = "idle"
    /\ falData' \in [observation : ObservationKinds,
                     causal_relationships : CausalRelationships]
    /\ falPc' = "observation"
    /\ UNCHANGED <<falsify_result, explanation, falResult>>
    /\ UNCHANGED notFal

\* Lines 77-82: data['observation'] raises KeyError when the key is missing.
FalObservation ==
    /\ falPc = "observation"
    /\ falPc' = IF falData.observation = "missing" THEN "except" ELSE "graph"
    /\ UNCHANGED <<falData, falsify_result, explanation, falResult>>
    /\ UNCHANGED notFal

\* Line 86: literal_eval raises on a malformed string.
FalGraph ==
    /\ falPc = "graph"
    /\ falPc' = IF falData.causal_relationships.parses THEN "falsify" ELSE "except"
    /\ UNCHANGED <<falData, falsify_result, explanation, falResult>>
    /\ UNCHANGED notFal

\* Line 89: falsify_graph raises when a node has no column, and may raise on
\* a graph with a cycle; otherwise it returns a pair of booleans.
FalFalsify ==
    /\ falPc = "falsify"
    /\ \/ /\ falData.observation = "ok"
          /\ falsify_result' \in Verdicts
          /\ falPc' = "explain"
       \/ /\ \/ falData.observation = "short"
             \/ HasCycle(falData.causal_relationships.edges)
          /\ falPc' = "except"
          /\ UNCHANGED falsify_result
    /\ UNCHANGED <<falData, explanation, falResult>>
    /\ UNCHANGED notFal

\* Lines 91-108.
FalExplain ==
    /\ falPc = "explain"
    /\ explanation' = Explanation(falsify_result)
    /\ falPc' = "success"
    /\ UNCHANGED <<falData, falsify_result, falResult>>
    /\ UNCHANGED notFal

\* Lines 112-122.
FalSuccess ==
    /\ falPc = "success"
    /\ falResult' = [status |-> "success",
                     falsifiable |-> falsify_result.falsifiable,
                     falsified |-> falsify_result.falsified,
                     explanation |-> explanation]
    /\ falPc' = "returned"
    /\ UNCHANGED <<falData, falsify_result, explanation>>
    /\ UNCHANGED notFal

\* Lines 124-137.
FalExcept ==
    /\ falPc = "except"
    /\ falResult' = [status |-> "error", falsifiable |-> Null,
                     falsified |-> Null, explanation |-> Null]
    /\ falPc' = "returned"
    /\ UNCHANGED <<falData, falsify_result, explanation>>
    /\ UNCHANGED notFal

NextFal ==
    \/ FalReceive \/ FalObservation \/ FalGraph \/ FalFalsify
    \/ FalExplain \/ FalSuccess \/ FalExcept

(***************************************************************************)
(* Claims of Part 7                                                        *)
(***************************************************************************)

FalSucceeded == falPc = "returned" /\ falResult.status = "success"

\* C11: in every successful result the explanation is the text of its pair
\* (falsifiable, falsified): too vague for (no, no), supported for (yes, no),
\* should-not-occur for (no, yes), incorrect for (yes, yes); the four texts
\* differ and none is empty.
C11_ExplanationByVerdict ==
    /\ Cardinality({TooVague, Supported, ShouldNotOccur, Incorrect, ""}) = 5
    /\ FalSucceeded =>
         /\ falResult.explanation # ""
         /\ (~falResult.falsifiable /\ ~falResult.falsified)
               => falResult.explanation = TooVague
         /\ (falResult.falsifiable /\ ~falResult.falsified)
               => falResult.explanation = Supported
         /\ (~falResult.falsifiable /\ falResult.falsified)
               => falResult.explanation = ShouldNotOccur
         /\ (falResult.falsifiable /\ falResult.falsified)
               => falResult.explanation = Incorrect

\* A success was returned for the pair (not falsifiable, falsified).
C11_InconsistentPairExplained ==
    FalSucceeded /\ ~falResult.falsifiable /\ falResult.falsified

\* C18: the entry point never returns a success with falsifiable = False
\* and falsified = True: a success that reports falsified is falsifiable.
C18_InconsistentPairRejected ==
    (FalSucceeded /\ falResult.falsified) => falResult.falsifiable

(***************************************************************************)
(* Part 8.  THE MODEL FILE                                                 *)
(*                                                                         *)
(* What each entry point does with the pickled model: build fits and       *)
(* writes it (open 'wb', pickle.dump); the six queries read it (open 'rb', *)
(* pickle.load) and evaluate on the loaded object; falsify has no model.   *)
(* Arrow strength, intrinsic influence and anomaly attribution evaluate    *)
(* their query function once per bootstrap repetition.                     *)
(***************************************************************************)

MaxRepetitions == 2

ModelQueries ==
    {"evaluate", "arrow", "intrinsic", "intervene", "counterfactual", "anomaly"}

Bootstrapped == {"arrow", "intrinsic", "anomaly"}

\* Every entry point opening the model file for writing.
OpenModeWriting(e) == "wb"

\* open(model_save_path, 'wb') in build, open(model_path, 'rb') elsewhere.
OpenMode(e) == IF e = "build" THEN "wb" ELSE "rb"

\* gcm.bootstrap_sampling(f, causal_model, ...) evaluates f on the model it
\* is given; gcm.fit_and_compute would refit it on resampled data.
Resampler(e) == IF e \in Bootstrapped THEN "bootstrap_sampling" ELSE "none"

\* gcm.confidence_intervals evaluates the function once per repetition.
Repetitions(e) == IF e \in Bootstrapped THEN MaxRepetitions ELSE 1

FsIdle ==
    /\ fsPc = "idle" /\ fsEp = "none" /\ fsData = <<>>
    /\ fsFileBefore = Null /\ fsFile = Null /\ fsHandle = "closed"
    /\ fsLoaded = Null /\ fsFits = 0 /\ fsRepetitions = 0 /\ fsStatus = Null

\* A call arrives; the file holds a persisted model or does not exist.
FsReceive ==
    /\ fsPc = "idle"
    /\ fsEp' \in EntryPoints
    /\ fsData' \in [model_path : {"missing", "ok"}, query : {"ok", "bad"}]
    /\ \E f \in FilesBefore : fsFileBefore' = f /\ fsFile' = f
    /\ fsPc' = "start"
    /\ UNCHANGED <<fsHandle, fsLoaded, fsFits, fsRepetitions, fsStatus>>
    /\ UNCHANGED notFs

\* Falsify (_01, lines 77-89) works on the request alone.
FsFalsify ==
    /\ fsPc = "start" /\ fsEp = "falsify"
    /\ fsPc' = IF fsData.query = "ok" THEN "success" ELSE "except"
    /\ UNCHANGED <<fsEp, fsData, fsFileBefore, fsFile, fsHandle, fsLoaded,
                   fsFits, fsRepetitions, fsStatus>>
    /\ UNCHANGED notFs

\* Build (_02, lines 66-78) creates and fits a model in memory.
FsFit ==
    /\ fsPc = "start" /\ fsEp = "build"
    /\ IF fsData.query = "ok"
       THEN /\ fsLoaded' = "fitted" /\ fsFits' = fsFits + 1 /\ fsPc' = "open"
       ELSE /\ fsPc' = "except" /\ UNCHANGED <<fsLoaded, fsFits>>
    /\ UNCHANGED <<fsEp, fsData, fsFileBefore, fsFile, fsHandle,
                   fsRepetitions, fsStatus>>
    /\ UNCHANGED notFs

\* The queries go straight to the file.
FsQueryStart ==
    /\ fsPc = "start" /\ fsEp \in ModelQueries
    /\ fsPc' = "open"
    /\ UNCHANGED <<fsEp, fsData, fsFileBefore, fsFile, fsHandle, fsLoaded,
                   fsFits, fsRepetitions, fsStatus>>
    /\ UNCHANGED notFs

\* open(path, mode): a missing path raises; 'rb' raises when the file does
\* not exist; 'wb' creates or truncates the file.
FsOpen ==
    /\ fsPc = "open"
    /\ IF fsData.model_path = "missing"
       THEN fsPc' = "except" /\ UNCHANGED <<fsFile, fsHandle>>
       ELSE IF OpenMode(fsEp) = "rb"
       THEN IF fsFile = "absent"
            THEN fsPc' = "except" /\ UNCHANGED <<fsFile, fsHandle>>
            ELSE fsPc' = "file" /\ fsHandle' = "rb" /\ UNCHANGED fsFile
       ELSE fsPc' = "file" /\ fsHandle' = "wb" /\ fsFile' = "empty"
    /\ UNCHANGED <<fsEp, fsData, fsFileBefore, fsLoaded, fsFits,
                   fsRepetitions, fsStatus>>
    /\ UNCHANGED notFs

\* pickle.load(file) in the queries: it needs a file open for reading; the
\* with statement closes the file either way.
FsLoad ==
    /\ fsPc = "file" /\ fsEp \in ModelQueries
    /\ IF fsHandle = "rb"
       THEN fsLoaded' = fsFile /\ fsPc' = "query"
       ELSE fsPc' = "except" /\ UNCHANGED fsLoaded
    /\ fsHandle' = "closed"
    /\ UNCHANGED <<fsEp, fsData, fsFileBefore, fsFile, fsFits, fsRepetitions,
                   fsStatus>>
    /\ UNCHANGED notFs

\* pickle.dump(causal_model, file) in build.
FsDump ==
    /\ fsPc = "file" /\ fsEp = "build"
    /\ IF fsHandle = "wb"
       THEN fsFile' = fsLoaded /\ fsPc' = "success"
       ELSE fsPc' = "except" /\ UNCHANGED fsFile
    /\ fsHandle' = "closed"
    /\ UNCHANGED <<fsEp, fsData, fsFileBefore, fsLoaded, fsFits,
                   fsRepetitions, fsStatus>>
    /\ UNCHANGED notFs

\* One evaluation of the query function on the loaded model.
FsEvaluate ==
    /\ fsPc = "query"
    /\ fsRepetitions < Repetitions(fsEp)
    /\ IF fsData.query = "bad"
       THEN fsPc' = "except" /\ UNCHANGED <<fsLoaded, fsFits, fsRepetitions>>
       ELSE /\ fsRepetitions' = fsRepetitions + 1
            /\ IF Resampler(fsEp) = "fit_and_compute"
               THEN fsLoaded' = "refitted" /\ fsFits' = fsFits + 1
               ELSE UNCHANGED <<fsLoaded, fsFits>>
            /\ UNCHANGED fsPc
    /\ UNCHANGED <<fsEp, fsData, fsFileBefore, fsFile, fsHandle, fsStatus>>
    /\ UNCHANGED notFs

\* Every evaluation is done.
FsEvaluated ==
    /\ fsPc = "query"
    /\ fsRepetitions = Repetitions(fsEp)
    /\ fsPc' = "success"
    /\ UNCHANGED <<fsEp, fsData, fsFileBefore, fsFile, fsHandle, fsLoaded,
                   fsFits, fsRepetitions, fsStatus>>
    /\ UNCHANGED notFs

FsSuccess ==
    /\ fsPc = "success"
    /\ fsStatus' = "success" /\ fsPc' = "returned"
    /\ UNCHANGED <<fsEp, fsData, fsFileBefore, fsFile, fsHandle, fsLoaded,
                   fsFits, fsRepetitions>>
    /\ UNCHANGED notFs

FsExcept ==
    /\ fsPc = "except"
    /\ fsStatus' = "error" /\ fsPc' = "returned"
    /\ UNCHANGED <<fsEp, fsData, fsFileBefore, fsFile, fsHandle, fsLoaded,
                   fsFits, fsRepetitions>>
    /\ UNCHANGED notFs

NextFs ==
    \/ FsReceive \/ FsFalsify \/ FsFit \/ FsQueryStart \/ FsOpen \/ FsLoad
    \/ FsDump \/ FsEvaluate \/ FsEvaluated \/ FsSuccess \/ FsExcept

(***************************************************************************)
(* Claims of Part 8                                                        *)
(***************************************************************************)

\* C17: only build writes the model file.  Under every other entry point
\* the file is never open for writing and keeps the content it had before
\* the call, on success and on error; a query evaluates on the model it
\* loaded, and no bootstrap repetition fits anything.
C17_QueriesLeaveModelFile ==
    (fsPc # "idle" /\ fsEp # "build") =>
        /\ fsFile = fsFileBefore
        /\ fsHandle \in {"closed", "rb"}
        /\ fsFits = 0
        /\ fsLoaded \in {Null, fsFileBefore}

\* A bootstrapped query returned a success after all its repetitions.
C17_BootstrapDone ==
    /\ fsPc = "returned" /\ fsEp = "anomaly" /\ fsStatus = "success"
    /\ fsRepetitions = MaxRepetitions /\ fsLoaded = "previous"

(***************************************************************************)
(* Part 9.  THE ATTRIBUTION RESULT                                         *)
(*                                                                         *)
(* _04_arrow_strength, _05_intrinsic_causal_influence and                  *)
(* _08_anomaly_attribution share one body: confidence_intervals over       *)
(* bootstrap_sampling gives a median and an interval for every key,        *)
(* convert_to_percentage turns the medians into percentages, and three     *)
(* views are built: the medians and the percentages rounded to two         *)
(* decimals and sorted in descending order, the interval bounds rounded.   *)
(*                                                                         *)
(* A score of a repetition is an integer number of thousandths.  A median  *)
(* or an interval bound is an integer number of fortieths of a thousandth, *)
(* the grid on which the 2.5 % and 97.5 % quantiles of up to forty values  *)
(* fall.  A rounded number is an integer number of hundredths.  The        *)
(* medians and the percentages are NumPy floats, the interval bounds are   *)
(* Python floats (value.tolist()), and round(x, 2) is not the same         *)
(* function on the two: NumPy scales by 100, rounds to the nearest integer *)
(* (ties to even) and divides; Python rounds the exact binary value, so a  *)
(* number written as a decimal tie goes the way its nearest double lies.   *)
(***************************************************************************)

MaxResamples == 2                   \* bootstrap repetitions range over 1..MaxResamples
ScoreValues == {-15, 0, 6}
TargetNode == "engine_rpm"

\* The orders in which the estimator may list its keys.
KeyOrders ==
    { <<>>, <<"altitude">>, <<"engine_load", "altitude">>,
      <<"altitude", "engine_load", "ambient_temp">> }

AttributionQueries == {"arrow", "intrinsic", "anomaly"}

\* The keys of the estimator: edges into the target for arrow strength,
\* nodes for the other two.
EstimatorKeys(e, order) ==
    [i \in DOMAIN order |->
        IF e = "arrow" THEN <<order[i], TargetNode>> ELSE order[i]]

\* The key of a view: "for (treatment, _), value in ..." for arrow strength,
\* "for treatment, value in ..." for the other two.
NodeKey(e, k) == IF e = "arrow" THEN k[1] ELSE k

RECURSIVE SortValues(_)
\* The values of a sequence in ascending order.
SortValues(s) ==
    IF s = <<>> THEN <<>>
    ELSE LET m == Min(Range(s))
             i == CHOOSE j \in DOMAIN s : s[j] = m
         IN <<m>> \o SortValues(SubSeq(s, 1, i - 1) \o SubSeq(s, i + 1, Len(s)))

\* The estimates of key k over the repetitions, in ascending order.
EstimatesOf(estimations, k) ==
    SortValues([b \in DOMAIN estimations |-> estimations[b][k]])

\* np.median of the sorted estimates xs.
MedianOf(xs) ==
    IF Len(xs) % 2 = 1 THEN 40 * xs[(Len(xs) + 1) \div 2]
    ELSE 20 * (xs[Len(xs) \div 2] + xs[Len(xs) \div 2 + 1])

\* The 2.5 % and the 97.5 % quantile of the sorted estimates xs, linearly
\* interpolated between the two estimates around position (n - 1) * q.
LowerQuantile(xs) ==
    IF Len(xs) = 1 THEN 40 * xs[1]
    ELSE (41 - Len(xs)) * xs[1] + (Len(xs) - 1) * xs[2]
UpperQuantile(xs) ==
    IF Len(xs) = 1 THEN 40 * xs[1]
    ELSE (Len(xs) - 1) * xs[Len(xs) - 1] + (41 - Len(xs)) * xs[Len(xs)]

\* The nearest integer to num / den, ties to the even one.
RoundHalfEven(num, den) ==
    LET q == num \div den
        r == num % den
    IN IF 2 * r < den THEN q
       ELSE IF 2 * r > den THEN q + 1
       ELSE IF q % 2 = 0 THEN q ELSE q + 1

\* round(value, 2) of a NumPy float num / den, in hundredths.
RoundNumpy(num, den) == RoundHalfEven(num, den)

\* round(x, 2) of a Python float num / den, in hundredths: at a decimal tie
\* the double lies above or below it.
RoundFloat(num, den, above) ==
    IF 2 * (num % den) = den
    THEN (IF above THEN (num \div den) + 1 ELSE num \div den)
    ELSE RoundHalfEven(num, den)

\* ((treatment, round(value, 2)) for treatment, value in scores.items())
\* without the keys whose rounded score is zero.
RoundedScoresNonzero(e, keys, scores) ==
    SelectSeq([i \in DOMAIN keys |->
                  <<NodeKey(e, keys[i]), RoundNumpy(scores[keys[i]], 400)>>],
              LAMBDA item : item[2] # 0)

\* ((treatment, round(value, 2)) for treatment, value in scores.items())
RoundedScores(e, keys, scores) ==
    [i \in DOMAIN keys |->
        <<NodeKey(e, keys[i]), RoundNumpy(scores[keys[i]], 400)>>]

\* ((treatment, round(value, 2)) for treatment, value in pct.items()); the
\* all-zero map holds the int 0.
RoundedPercentages(e, keys, percentages) ==
    [i \in DOMAIN keys |->
        <<NodeKey(e, keys[i]),
          RoundNumpy(percentages[keys[i]][1] * 100, percentages[keys[i]][2])>>]

\* The interval bounds listed high first.
RoundedIntervalsHighFirst(e, keys, intervals, above) ==
    [i \in DOMAIN keys |->
        <<NodeKey(e, keys[i]),
          <<RoundFloat(intervals[keys[i]][2], 400, above),
            RoundFloat(intervals[keys[i]][1], 400, above)>> >>]

\* (treatment, [round(x, 2) for x in value.tolist()]) for every key
RoundedIntervals(e, keys, intervals, above) ==
    [i \in DOMAIN keys |->
        <<NodeKey(e, keys[i]),
          <<RoundFloat(intervals[keys[i]][1], 400, above),
            RoundFloat(intervals[keys[i]][2], 400, above)>> >>]

RECURSIVE InsertDescending(_, _)
\* item placed behind every item of the sorted sequence that is not
\* smaller: equal items keep the order they came in.
InsertDescending(sorted, item) ==
    IF sorted = <<>> THEN <<item>>
    ELSE IF Head(sorted)[2] >= item[2]
         THEN <<Head(sorted)>> \o InsertDescending(Tail(sorted), item)
         ELSE <<item>> \o sorted

RECURSIVE InsertAscending(_, _)
InsertAscending(sorted, item) ==
    IF sorted = <<>> THEN <<item>>
    ELSE IF Head(sorted)[2] <= item[2]
         THEN <<Head(sorted)>> \o InsertAscending(Tail(sorted), item)
         ELSE <<item>> \o sorted

RECURSIVE SortedAscending(_)
\* sorted(items, key=lambda item: item[1]) without reverse=True
SortedAscending(items) ==
    IF items = <<>> THEN <<>>
    ELSE InsertAscending(SortedAscending(SubSeq(items, 1, Len(items) - 1)),
                         items[Len(items)])

RECURSIVE SortedDescending(_)
\* sorted(items, key=lambda item: item[1], reverse=True)
SortedDescending(items) ==
    IF items = <<>> THEN <<>>
    ELSE InsertDescending(SortedDescending(SubSeq(items, 1, Len(items) - 1)),
                          items[Len(items)])

RECURSIVE Dict(_)
\* dict(items): the pairs in order, a later pair with a key already there
\* replacing the value at the key's place.
Dict(items) ==
    IF items = <<>> THEN <<>>
    ELSE LET rest == Dict(SubSeq(items, 1, Len(items) - 1))
             last == items[Len(items)]
         IN IF \E i \in DOMAIN rest : rest[i][1] = last[1]
            THEN [i \in DOMAIN rest |->
                    IF rest[i][1] = last[1] THEN last ELSE rest[i]]
            ELSE Append(rest, last)

AtIdle ==
    /\ atPc = "idle" /\ atEp = Null /\ atKeys = <<>> /\ atAbove = FALSE
    /\ all_estimations = <<>> /\ attribution_scores = <<>>
    /\ attribution_scores_intervals = <<>> /\ attribution_scores_pct = <<>>
    /\ atResult = <<>>

\* A call of one of the three entry points arrives; the model is loaded.
AtReceive ==
    /\ atPc = "idle"
    /\ atEp' \in AttributionQueries
    /\ \E order \in KeyOrders : atKeys' = EstimatorKeys(atEp', order)
    /\ atAbove' \in BOOLEAN
    /\ atPc' = "query"
    /\ UNCHANGED <<all_estimations, attribution_scores,
                   attribution_scores_intervals, attribution_scores_pct,
                   atResult>>
    /\ UNCHANGED notAt

\* gcm.confidence_intervals(gcm.bootstrap_sampling(...)): the estimator is
\* evaluated some number of times, each time giving a score to every key,
\* and the median and the interval of every key are returned; or the
\* estimator raises.
AtBootstrap ==
    /\ atPc = "query"
    /\ \/ /\ \E n \in 1..MaxResamples :
               all_estimations' \in [1..n -> [Range(atKeys) -> ScoreValues]]
          /\ attribution_scores' =
               [k \in Range(atKeys) |->
                   MedianOf(EstimatesOf(all_estimations', k))]
          /\ attribution_scores_intervals' =
               [k \in Range(atKeys) |->
                   <<LowerQuantile(EstimatesOf(all_estimations', k)),
                     UpperQuantile(EstimatesOf(all_estimations', k))>>]
          /\ atPc' = "percentage"
       \/ /\ atPc' = "except"
          /\ UNCHANGED <<all_estimations, attribution_scores,
                         attribution_scores_intervals>>
    /\ UNCHANGED <<atEp, atKeys, atAbove, attribution_scores_pct, atResult>>
    /\ UNCHANGED notAt

\* The percentages taken of the scores already rounded for the score view.
AtPercentageOfRounded ==
    /\ atPc = "percentage"
    /\ attribution_scores_pct' =
         convert_to_percentage(
             [k \in DOMAIN attribution_scores |->
                 RoundNumpy(attribution_scores[k], 400)])
    /\ atPc' = "views"
    /\ UNCHANGED <<atEp, atKeys, atAbove, all_estimations, attribution_scores,
                   attribution_scores_intervals, atResult>>
    /\ UNCHANGED notAt

\* attribution_scores_pct = convert_to_percentage(attribution_scores)
AtPercentage ==
    /\ atPc = "percentage"
    /\ attribution_scores_pct' = convert_to_percentage(attribution_scores)
    /\ atPc' = "views"
    /\ UNCHANGED <<atEp, atKeys, atAbove, all_estimations, attribution_scores,
                   attribution_scores_intervals, atResult>>
    /\ UNCHANGED notAt

\* The three views and the success result.
AtSuccess ==
    /\ atPc = "views"
    /\ atResult' =
         [status |-> "success",
          scores |->
              Dict(SortedDescending(
                  RoundedScores(atEp, atKeys, attribution_scores))),
          pct |->
              Dict(SortedDescending(
                  RoundedPercentages(atEp, atKeys, attribution_scores_pct))),
          intervals |->
              Dict(RoundedIntervals(atEp, atKeys,
                                    attribution_scores_intervals, atAbove))]
    /\ atPc' = "returned"
    /\ UNCHANGED <<atEp, atKeys, atAbove, all_estimations, attribution_scores,
                   attribution_scores_intervals, attribution_scores_pct>>
    /\ UNCHANGED notAt

\* The error result: the three views are None.
AtExcept ==
    /\ atPc = "except"
    /\ atResult' = [status |-> "error", scores |-> Null, pct |-> Null,
                    intervals |-> Null]
    /\ atPc' = "returned"
    /\ UNCHANGED <<atEp, atKeys, atAbove, all_estimations, attribution_scores,
                   attribution_scores_intervals, attribution_scores_pct>>
    /\ UNCHANGED notAt

NextAt == AtReceive \/ AtBootstrap \/ AtPercentage \/ AtSuccess \/ AtExcept

(***************************************************************************)
(* Claims of Part 9                                                        *)
(***************************************************************************)

AtSucceeded == atPc = "returned" /\ atResult.status = "success"

\* The values of a view are in non-increasing order.
NonIncreasing(view) ==
    \A i, j \in DOMAIN view : i < j => view[i][2] >= view[j][2]

\* C24: in every successful attribution result the score view lists its
\* keys in non-increasing order of the rounded score and the percentage
\* view in non-increasing order of the rounded percentage.
C24_ViewsSortedDescending ==
    AtSucceeded => NonIncreasing(atResult.scores) /\ NonIncreasing(atResult.pct)

\* A result with three keys was returned whose score view lists them in
\* another order than the estimator did, with a negative score last.
C24_ThreeKeysReordered ==
    /\ AtSucceeded /\ Len(atKeys) = 3
    /\ \E i \in DOMAIN atKeys :
          atResult.scores[i][1] # NodeKey(atEp, atKeys[i])
    /\ atResult.scores[3][2] < 0
    /\ atResult.scores[1][2] > atResult.scores[2][2]

\* The value a view lists for the key of estimator key k.
ViewValue(view, k) ==
    view[CHOOSE i \in DOMAIN view : view[i][1] = NodeKey(atEp, k)][2]

\* C25: for every key of a successful bootstrap result the interval and the
\* point estimate (the median over the repetitions) satisfy
\* low <= point estimate <= high, and so do the three numbers as the result
\* lists them, rounded to two decimals.
C25_PointWithinInterval ==
    AtSucceeded =>
        \A i \in DOMAIN atKeys :
            LET k == atKeys[i] IN
              /\ attribution_scores_intervals[k][1] <= attribution_scores[k]
              /\ attribution_scores[k] <= attribution_scores_intervals[k][2]
              /\ ViewValue(atResult.intervals, k)[1]
                    <= ViewValue(atResult.scores, k)
              /\ ViewValue(atResult.scores, k)
                    <= ViewValue(atResult.intervals, k)[2]

\* The keys a view lists.
ViewKeys(view) == {view[i][1] : i \in DOMAIN view}

\* C26: in every successful attribution result the score view, the
\* percentage view and the interval view list exactly the keys the
\* estimator returned, each once.
C26_ViewsShareKeys ==
    AtSucceeded =>
        LET returned == {NodeKey(atEp, k) : k \in Range(atKeys)} IN
          /\ ViewKeys(atResult.scores) = returned
          /\ ViewKeys(atResult.pct) = returned
          /\ ViewKeys(atResult.intervals) = returned
          /\ Len(atResult.scores) = Cardinality(returned)
          /\ Len(atResult.pct) = Cardinality(returned)
          /\ Len(atResult.intervals) = Cardinality(returned)

\* A result with three keys was returned in which two keys with different
\* medians have the same rounded score, zero, and the third has another.
C26_EqualRoundedScores ==
    /\ AtSucceeded /\ Len(atKeys) = 3
    /\ atResult.scores[1][2] > 0
    /\ atResult.scores[2][2] = 0
    /\ atResult.scores[3][2] = 0
    /\ \E j, k \in Range(atKeys) :
          /\ attribution_scores[j] # attribution_scores[k]
          /\ ViewValue(atResult.scores, j) = 0
          /\ ViewValue(atResult.scores, k) = 0

\* The sum of the percentages a view lists, in hundredths of a percent.
ViewSum(view) == SumOver([i \in DOMAIN view |-> view[i][2]], DOMAIN view)

\* C27: the percentage the result lists for a key is the percentage of its
\* unrounded score, |score| / sum of |scores| * 100, rounded to two
\* decimals; when some score is nonzero every listed percentage lies in
\* [0, 100] and their sum differs from 100 by at most 0.005 per key.
C27_PercentagesOfUnroundedScores ==
    (AtSucceeded /\ ~AllZeroScores(attribution_scores)) =>
        /\ \A i \in DOMAIN atKeys :
               ViewValue(atResult.pct, atKeys[i]) =
                   RoundHalfEven(Abs(attribution_scores[atKeys[i]]) * 10000,
                                 total_absolute_sum(attribution_scores))
        /\ \A i \in DOMAIN atResult.pct :
               atResult.pct[i][2] >= 0 /\ atResult.pct[i][2] <= 10000
        /\ 2 * Abs(ViewSum(atResult.pct) - 10000) <= Len(atKeys)

\* A result with three keys was returned: one score is negative, one is
\* nonzero but rounds to zero, and the listed percentages do not sum to
\* 100.
C27_RoundedSumOff ==
    /\ AtSucceeded /\ Len(atKeys) = 3
    /\ \E k \in Range(atKeys) : attribution_scores[k] < 0
    /\ \E k \in Range(atKeys) :
          /\ attribution_scores[k] # 0
          /\ ViewValue(atResult.scores, k) = 0
          /\ ViewValue(atResult.pct, k) > 0
    /\ ViewSum(atResult.pct) # 10000

(***************************************************************************)
(* The kind selectors of build and of interventional samples                *)
(***************************************************************************)

\* One call of the build entry point or of the interventional-sample entry
\* point.
CallBuild == smPc = "idle" /\ NextBuild
CallSample == buildPc = "idle" /\ NextSm
NextSelector == CallBuild \/ CallSample

Init ==
    /\ EntryIdle /\ PctIdle /\ SmIdle /\ CfIdle /\ BuildIdle /\ SeedIdle
    /\ FalIdle /\ FsIdle /\ AtIdle

\* One call of one entry point.
Spec == Init /\ [][NextEntry]_vars

\* One call of convert_to_percentage.
SpecPct == Init /\ [][NextPct]_vars

\* One interventional-sample query.
SpecSample == Init /\ [][NextSm]_vars

\* One counterfactual query.
SpecCounterfactual == Init /\ [][NextCf]_vars

\* One build.
SpecBuild == Init /\ [][NextBuild]_vars

\* Two queries, one after the other.
SpecRuns == Init /\ [][NextRuns]_vars

\* Two queries, concurrently.
SpecThreads == Init /\ [][NextThreads]_vars

\* One falsification.
SpecFalsify == Init /\ [][NextFal]_vars

\* One call, and the model file.
SpecFile == Init /\ [][NextFs]_vars

\* One attribution query.
SpecAttribution == Init /\ [][NextAt]_vars

\* One call of build or of interventional samples.
SpecSelector == Init /\ [][NextSelector]_vars

=============================================================================
